---------------------------- MODULE Spec2Model ----------------------------
(***************************************************************************)
(* A model of orcid_downloader: name cleaning and synonym generation       *)
(* (name_utils.py), the lexical index and the grounding of name queries    *)
(* (lexical.py, api.py) and the ingestion of the document stream           *)
(* (api.py, iter_records), the extraction of a record from a document     *)
(* (api.py, _process_file) and the run of the command line (cli.py).       *)
(*                                                                         *)
(* A Python str is a sequence of one-character strings, so that slicing,   *)
(* case folding, splitting and joining are computed as the code computes   *)
(* them.  The only whitespace character of the model is the space.         *)
(***************************************************************************)
EXTENDS Integers, Sequences, FiniteSets, TLC

VARIABLES
    name,          \* names: the str handed to clean_name / name_to_synonyms
    phase,         \* names: which function has been applied to name
    out,           \* names: the values returned so far
    records,       \* grounding: the record stream iter_records yields
    terms,         \* grounding: the rows of table terms of orcid-gilda.db
    builds,        \* grounding: what the table held when each build of it began
    gpc,           \* grounding: where the build and the query stand
    text,          \* grounding: the text handed to get_matches
    lookups,       \* grounding: the texts handed to super().get_matches, in order
    matches,       \* grounding: the matches get_matches returns
    answer,        \* grounding: what the caller of get_matches returns
    archive,       \* ingestion: the members of the summaries archive, in order
    records_file,  \* ingestion: records.jsonl.gz: whether it exists, and its lines
    ipc,           \* ingestion: where the current iter_records call stands
    source,        \* ingestion: what the current call reads: the archive or the file
    pos,           \* ingestion: how many members (or lines) the call has consumed
    yielded,       \* ingestion: the records the current call has yielded
    calls,         \* ingestion: the number of iter_records calls made
    docs,          \* extraction: the documents handed to _process_file, in order
    epos,          \* extraction: how many of the documents have been processed
    results,       \* extraction: what _process_file returned for each of them
    process,       \* extraction: the interpreter the documents are now extracted in
    records_hq,    \* extraction: the records written to records_hq.jsonl.gz
    epc,           \* extraction: whether the loop runs, has ended or was left by an exception
    UNMAPPED_EXTERNAL_ID,  \* extraction: the module-level set of unknown id types
    rin,           \* reconcile: the arguments of reconcile_aliases
    rout,          \* reconcile: the values it returned
    ssslm,         \* run: the rows of the two term files write_lexical writes
    affiliation_no_ror,  \* run: write_summaries' counter of organization names without ROR
    employment,    \* run: write_summaries' loop variable employment, <<>> while unbound
    spos,          \* run: how many records write_summaries has consumed
    steps,         \* run: the steps main has completed, in order
    mpc            \* run: where main (or write_summaries) stands

namesVars == <<name, phase, out>>
groundVars == <<records, terms, builds, gpc, text, lookups, matches, answer>>
ingestVars == <<archive, records_file, ipc, source, pos, yielded, calls>>
extractVars == <<docs, epos, results, process, records_hq, epc, UNMAPPED_EXTERNAL_ID>>
reconcileVars == <<rin, rout>>
runVars == <<ssslm, affiliation_no_ror, employment, spos, steps, mpc>>
vars == <<namesVars, groundVars, ingestVars, extractVars, reconcileVars, runVars>>

\* what the actions of one part leave unchanged
notNames == <<groundVars, ingestVars, extractVars, reconcileVars, runVars>>
notGround == <<namesVars, ingestVars, extractVars, reconcileVars, runVars>>
notIngest == <<namesVars, groundVars, extractVars, reconcileVars, runVars>>
notExtract == <<namesVars, groundVars, ingestVars, reconcileVars, runVars>>
notReconcile == <<namesVars, groundVars, ingestVars, extractVars, runVars>>
notRun == <<namesVars, ingestVars, extractVars, reconcileVars>>

\* the parts of the state a specification does not use stay as they are here
NamesIdle == name = <<>> /\ phase = "idle" /\ out = <<>>
GroundIdle ==
    /\ records = <<>> /\ terms = {} /\ builds = <<>> /\ gpc = "idle" /\ text = <<>>
    /\ lookups = <<>> /\ matches = {} /\ answer = <<>>
IngestIdle ==
    /\ archive = <<>> /\ records_file = [exists |-> FALSE, lines |-> <<>>]
    /\ ipc = "idle" /\ source = "none" /\ pos = 0 /\ yielded = <<>> /\ calls = 0
ExtractIdle ==
    /\ docs = <<>> /\ epos = 0 /\ results = <<>> /\ process = 0 /\ records_hq = <<>> /\ epc = "idle"
    /\ UNMAPPED_EXTERNAL_ID = {}
ReconcileIdle == rin = <<>> /\ rout = <<>>
RunIdle ==
    /\ ssslm = <<>> /\ affiliation_no_ror = {} /\ employment = <<>> /\ spos = 0
    /\ steps = <<>> /\ mpc = "idle"

---------------------------------------------------------------------------
(* Python str primitives                                                   *)

ascii_lowercase == <<"a","b","c","d","e","f","g","h","i","j","k","l","m","n","o","p","q","r","s","t","u","v","w","x","y","z">>
ascii_uppercase == <<"A","B","C","D","E","F","G","H","I","J","K","L","M","N","O","P","Q","R","S","T","U","V","W","X","Y","Z">>

IsLowerChar(c) == \E i \in 1..26 : ascii_lowercase[i] = c
IsUpperChar(c) == \E i \in 1..26 : ascii_uppercase[i] = c
IsCased(c) == IsLowerChar(c) \/ IsUpperChar(c)
LowerChar(c) == IF IsUpperChar(c)
                THEN ascii_lowercase[CHOOSE i \in 1..26 : ascii_uppercase[i] = c]
                ELSE c
UpperChar(c) == IF IsLowerChar(c)
                THEN ascii_uppercase[CHOOSE i \in 1..26 : ascii_lowercase[i] = c]
                ELSE c

\* str.lower(), str.upper()
Lower(s) == [i \in 1..Len(s) |-> LowerChar(s[i])]
Upper(s) == [i \in 1..Len(s) |-> UpperChar(s[i])]

\* str.title(): a cased character after an uncased one (or at the start) is
\* upper-cased, every other cased character is lower-cased
Title(s) == [i \in 1..Len(s) |->
               IF i = 1 \/ ~IsCased(s[i - 1]) THEN UpperChar(s[i]) ELSE LowerChar(s[i])]

\* s[n:]
Drop(s, n) == IF n >= Len(s) THEN <<>> ELSE SubSeq(s, n + 1, Len(s))
\* s[:n]
Take(s, n) == IF n >= Len(s) THEN s ELSE SubSeq(s, 1, n)

StartsWith(s, p) == Len(s) >= Len(p) /\ SubSeq(s, 1, Len(p)) = p
EndsWith(s, p) == Len(s) >= Len(p) /\ SubSeq(s, Len(s) - Len(p) + 1, Len(s)) = p
Contains(s, c) == \E i \in 1..Len(s) : s[i] = c

\* str.removesuffix(p): case-sensitive
RemoveSuffix(s, p) == IF Len(p) > 0 /\ EndsWith(s, p) THEN Take(s, Len(s) - Len(p)) ELSE s
\* str.removeprefix(p)
RemovePrefix(s, p) == IF Len(p) > 0 /\ StartsWith(s, p) THEN Drop(s, Len(p)) ELSE s

RECURSIVE LStripChar(_, _)
LStripChar(s, c) == IF Len(s) > 0 /\ s[1] = c THEN LStripChar(Tail(s), c) ELSE s
RECURSIVE RStripChar(_, _)
RStripChar(s, c) == IF Len(s) > 0 /\ s[Len(s)] = c
                    THEN RStripChar(Take(s, Len(s) - 1), c) ELSE s
\* str.strip(c) for a single character c; str.strip() strips whitespace
StripChar(s, c) == RStripChar(LStripChar(s, c), c)
Strip(s) == StripChar(s, " ")

\* str.replace(old, new): non-overlapping occurrences, left to right
RECURSIVE Replace(_, _, _)
Replace(s, old, new) ==
    IF Len(s) = 0 THEN <<>>
    ELSE IF StartsWith(s, old) THEN new \o Replace(Drop(s, Len(old)), old, new)
    ELSE <<s[1]>> \o Replace(Tail(s), old, new)

\* str.split(): the maximal runs of non-whitespace characters
RECURSIVE SplitFrom(_, _)
SplitFrom(s, cur) ==
    IF Len(s) = 0 THEN (IF Len(cur) = 0 THEN <<>> ELSE <<cur>>)
    ELSE IF s[1] = " "
         THEN (IF Len(cur) = 0 THEN <<>> ELSE <<cur>>) \o SplitFrom(Tail(s), <<>>)
         ELSE SplitFrom(Tail(s), Append(cur, s[1]))
Split(s) == SplitFrom(s, <<>>)

\* str.split(sep) for a one-character separator: empty fields are kept
RECURSIVE SplitOnFrom(_, _, _)
SplitOnFrom(s, sep, cur) ==
    IF Len(s) = 0 THEN <<cur>>
    ELSE IF s[1] = sep THEN <<cur>> \o SplitOnFrom(Tail(s), sep, <<>>)
    ELSE SplitOnFrom(Tail(s), sep, Append(cur, s[1]))
SplitOn(s, sep) == SplitOnFrom(s, sep, <<>>)

\* sep.join(parts)
RECURSIVE Join(_, _)
Join(sep, parts) ==
    IF Len(parts) = 0 THEN <<>>
    ELSE IF Len(parts) = 1 THEN parts[1]
    ELSE parts[1] \o sep \o Join(sep, Tail(parts))

\* "".join(parts)
Concat(parts) == Join(<<>>, parts)

Range(f) == {f[i] : i \in DOMAIN f}

---------------------------------------------------------------------------
(* name_utils.py                                                           *)

\* the credential suffixes clean_name removes, in the order of its loop
CleanSuffixes == << <<"(","d","r",")">>, <<"(","d","r",".",")">>, <<","," ","m",".","d",".">>, <<","," ","p","h","d">>, <<","," ","m","d">>, <<","," ","m","p","h">>,
                    <<","," ","p","h",".","d",".">>, <<","," ","m","s">> >>

\* the module-level set `suffixes` that _uncomma consults
suffixes == { <<"p","h","d">>, <<"m","d">>, <<"m","p","h">>, <<"m","b","a">>, <<"m","s","c">>, <<"d","."," ","m","."," ","d",".">>, <<"f","a","c","s">>,
              <<"p","h","a","r","m","d">>, <<"f","r","s","c">>, <<"r","n">>, <<"e","d","d">> }

\* _uncomma(name).  The allowed_suffixes branch of the code is a `pass`.
_uncomma(nm) ==
    IF ~Contains(nm, ",") THEN nm
    ELSE
      LET n1 == Replace(nm, <<" ",",">>, <<",">>)
          parts == Split(n1)
          k == Len(parts)
      IN  IF k < 2 THEN n1
          ELSE
            LET n2 == IF EndsWith(parts[1], <<",">>)
                      THEN Join(<<" ">>, Tail(parts)) \o <<" ">>
                             \o Strip(RStripChar(parts[1], ","))
                      ELSE n1
                ss == Strip(Replace(Lower(parts[k]), <<".">>, <<>>))
            IN  IF k > 2 /\ EndsWith(parts[k - 1], <<",">>) /\ ss \in suffixes
                THEN Strip(RStripChar(Join(<<" ">>, Take(parts, k - 1)), ","))
                ELSE n2

\* the loop of clean_name over CleanSuffixes: the test is on the lower-cased
\* ORIGINAL name, the removal on the current name and case-sensitive
RECURSIVE StripSuffixes(_, _, _)
StripSuffixes(nm, lower, i) ==
    IF i > Len(CleanSuffixes) THEN nm
    ELSE StripSuffixes(
           IF EndsWith(lower, CleanSuffixes[i])
           THEN Strip(RemoveSuffix(nm, CleanSuffixes[i])) ELSE nm,
           lower, i + 1)

\* clean_name(name).  Every prefix test reads `lower`, computed once from the
\* argument; the "dr.-ing." and "dr " branches slice without strip().
clean_name(nm) ==
    LET lower == Lower(nm)
        n1 == IF StartsWith(lower, <<"p","r","o","f","e","s","s","o","r"," ">>) THEN Strip(Drop(nm, 10)) ELSE nm
        n2 == IF StartsWith(lower, <<"p","r","o","f",".">>) THEN Strip(Drop(n1, 5)) ELSE n1
        n3 == IF StartsWith(lower, <<"d","r",".","-","i","n","g",".">>) THEN Drop(n2, 8) ELSE n2
        n4 == IF StartsWith(lower, <<"d","r"," ">>) THEN Drop(n3, 3) ELSE n3
        n5 == IF StartsWith(lower, <<"d","r",".">>) THEN Strip(Drop(n4, 3)) ELSE n4
        n6 == StripSuffixes(n5, lower, 1)
        n7 == Replace(n6, <<"\"">>, <<>>)
        n8 == StripChar(n7, "/")
        n9 == StripChar(n8, "\\")
        n10 == IF n9 = Lower(n9) \/ n9 = Upper(n9) THEN Title(n9) ELSE n9
    IN  _uncomma(n10)

\* g[0] for each g, and f"{i}." for each i
Initials(gs) == [i \in 1..Len(gs) |-> <<gs[i][1]>>]
Dotted(is) == [i \in 1..Len(is) |-> is[i] \o <<".">>]

\* name_to_synonyms(name): the sequence of the strings the generator yields, in
\* the order it yields them.  The unpacking `*givens, family = name.split()`
\* needs at least one token: see name_to_synonyms_raises.
name_to_synonyms_raises(nm) == Len(Split(nm)) = 0

name_to_synonyms(nm) ==
    LET toks == Split(nm)
    IN  IF Len(toks) < 2 THEN <<>>
        ELSE
          LET family == toks[Len(toks)]
              givens == Take(toks, Len(toks) - 1)
              sp == <<" ">>
              cs == <<","," ">>
              dot == <<".">>
              first_given == givens[1]
              middle_given_initials == Initials(Tail(givens))
              mid_spaced == Join(sp, middle_given_initials)
              mid_dotted_unspaced == Concat(Dotted(middle_given_initials))
              mid_dotted_spaced == Join(sp, Dotted(middle_given_initials))
              firsts == Initials(givens)
              firsts_unspaced == Concat(firsts)
              firsts_spaced == Join(sp, firsts)
              firsts_dotted_unspaced == Concat(Dotted(firsts))
              firsts_dotted_spaced == Join(sp, Dotted(firsts))
              first_first == firsts[1]
              head == << family \o cs \o givens[1],
                         family \o cs \o Join(sp, givens) >>
              middle == IF Len(givens) > 1
                        THEN << family \o cs \o first_given \o sp \o mid_spaced,
                                family \o cs \o first_given \o sp \o mid_dotted_unspaced,
                                family \o cs \o first_given \o sp \o mid_dotted_spaced,
                                first_given \o sp \o mid_spaced \o sp \o family,
                                first_given \o sp \o mid_dotted_unspaced \o sp \o family,
                                first_given \o sp \o mid_dotted_spaced \o sp \o family >>
                        ELSE <<>>
              rest == << first_first \o sp \o family,
                         first_first \o dot \o sp \o family,
                         firsts_unspaced \o sp \o family,
                         firsts_spaced \o sp \o family,
                         firsts_dotted_unspaced \o sp \o family,
                         firsts_dotted_spaced \o sp \o family,
                         family \o sp \o firsts_unspaced,
                         family \o sp \o firsts_dotted_unspaced,
                         family \o sp \o firsts_spaced,
                         family \o sp \o firsts_dotted_spaced,
                         family \o cs \o firsts_unspaced,
                         family \o cs \o firsts_dotted_unspaced,
                         family \o cs \o firsts_spaced,
                         family \o cs \o firsts_dotted_spaced,
                         family \o sp \o first_first,
                         family \o sp \o first_first \o dot,
                         family \o cs \o first_first \o dot,
                         family \o cs \o first_first >>
          IN  head \o middle \o rest

---------------------------------------------------------------------------
(* Names: clean_name and name_to_synonyms applied to bounded inputs         *)

\* the pieces the input strings are put together from
NameFragments == << <<"D","r","."," ">>, <<"d","r"," ">>, <<"P","r","o","f","."," ">>, <<"D","r",".","-","I","n","g","."," ">>, <<"J","a","n","e">>, <<"D","o","e">>,
                    <<"C">>, <<" ">>, <<","," ">>, <<","," ","P","h","D">>, <<"v","a","n"," ","D","o","e">> >>

\* an input is the concatenation of at most MaxFragments fragments
MaxFragments == 3

RECURSIVE FragmentStrings(_)
FragmentStrings(n) ==
    IF n = 0 THEN { <<>> }
    ELSE LET shorter == FragmentStrings(n - 1)
         IN  shorter \cup { s \o NameFragments[i] :
                              s \in shorter, i \in 1..Len(NameFragments) }

NameInputs == FragmentStrings(MaxFragments)

InitNames ==
    /\ name \in NameInputs
    /\ phase = "input"
    /\ out = <<>>
    /\ GroundIdle
    /\ IngestIdle
    /\ ExtractIdle
    /\ ReconcileIdle
    /\ RunIdle

\* c = clean_name(name)
CleanName ==
    /\ phase = "input"
    /\ out' = << clean_name(name) >>
    /\ phase' = "cleaned"
    /\ UNCHANGED <<name, notNames>>

\* clean_name(c), on the value a first call returned
CleanNameAgain ==
    /\ phase = "cleaned"
    /\ out' = Append(out, clean_name(out[1]))
    /\ phase' = "recleaned"
    /\ UNCHANGED <<name, notNames>>

\* list(name_to_synonyms(name)); the unpacking raises ValueError on no token
NameToSynonyms ==
    /\ phase = "input"
    /\ IF name_to_synonyms_raises(name)
       THEN phase' = "raised" /\ out' = <<>>
       ELSE phase' = "synonyms" /\ out' = name_to_synonyms(name)
    /\ UNCHANGED <<name, notNames>>

NextNames ==
    \/ CleanName
    \/ CleanNameAgain
    \/ NameToSynonyms

SpecNames == InitNames /\ [][NextNames]_vars

\* C1: for every name n, the variants name_to_synonyms(n) yields do not
\* contain n itself.  Stated as in the claim; the generator yields
\* first_first + " " + family, which is n when the only given name is a letter.
C1_SynonymsExcludeInput ==
    phase = "synonyms" => name \notin Range(out)

\* C2: clean_name is idempotent: clean_name(clean_name(s)) = clean_name(s).
\* Stated as in the claim; one call strips one honorific only.
C2_CleanNameIdempotent ==
    phase = "recleaned" => out[2] = out[1]


\* the honorific prefixes clean_name tests for, in the order of its tests
\* (name_utils.py, lines 23-32), and the longest of them that s begins with
\* when case is ignored (<<>> when none)
C23_LongestHonorific(s) ==
    LET honorifics == { <<"p","r","o","f","e","s","s","o","r"," ">>, <<"p","r","o","f",".">>, <<"d","r",".","-","i","n","g",".">>, <<"d","r"," ">>, <<"d","r",".">> }
        matching == { h \in honorifics : StartsWith(Lower(s), h) }
    IN  IF matching = {} THEN <<>>
        ELSE CHOOSE h \in matching : \A g \in matching : Len(g) <= Len(h)

\* C23: clean_name strips the longest honorific prefix that matches and no
\* character after it: an honorific followed by a name that begins with no
\* honorific is cleaned to what the name alone is cleaned to (outer
\* whitespace aside).  Stated as in the claim; after "dr.-ing." the test for
\* "dr." matches the input once more and cuts three more characters.
C23_OnlyLongestPrefixStripped ==
    (phase = "cleaned" /\ Len(C23_LongestHonorific(name)) > 0) =>
        LET following == Strip(Drop(name, Len(C23_LongestHonorific(name))))
        IN  Len(C23_LongestHonorific(following)) = 0
              => Strip(out[1]) = Strip(clean_name(following))

\* C24: an input "Family, Given" (one comma, the family part of one or more
\* tokens before it, the given part after it) is cleaned to "Given Family"
\* without the comma.  Stated as in the claim, for parts made of plain tokens;
\* _uncomma reorders only when the first token ends with the comma, so a
\* family part of two tokens stays where it is.
C24_CommaFormReordered ==
    (phase = "cleaned" /\ Len(SplitOn(name, ",")) = 2) =>
        LET family == Split(SplitOn(name, ",")[1])
            given == Split(SplitOn(name, ",")[2])
            plain == { <<"J","a","n","e">>, <<"D","o","e">>, <<"C">>, <<"v","a","n">> }
        IN  (/\ Len(family) >= 1 /\ Len(given) >= 1
             /\ Range(family) \cup Range(given) \subseteq plain)
              => out[1] = Join(<<" ">>, given \o family)
---------------------------------------------------------------------------
(* api.py: the names of a record (_process_file, lines 508-542)             *)

\* Optional[str]: None is the empty sequence, a str s is <<s>>
None == <<>>
Some(s) == <<s>>
IsNone(o) == o = <<>>

\* other names longer than this are not aliases
MaxOtherNameLength == 60

\* reconcile_aliases' default minimum_name_length
minimum_name_length == 1

\* _iter_other_names(tree): the set of the strings it yields, for the texts of
\* the other-name elements
_iter_other_names(contents) ==
    UNION { { clean_name(Strip(z)) :
                z \in { y \in Range(SplitOn(Strip(contents[i]), ";")) :
                          /\ Contains(Strip(y), " ")
                          /\ Len(Strip(y)) < MaxOtherNameLength } } :
            i \in 1..Len(contents) }

\* reconcile_aliases(name, aliases): the set of the (name, aliases) pairs it can
\* return.  max(aliases, key=len) returns the first alias of maximal length in
\* the iteration order of a set of str, which differs from process to process,
\* so each alias of maximal length is a possible outcome.
\* a mutant of reconcile_aliases that leaves the promoted alias among the aliases
reconcile_aliases_keeps_promoted(nm, als) ==
    LET kept == { a \in als : Len(a) > minimum_name_length }
        nm1 == IF ~IsNone(nm) /\ Len(nm[1]) <= minimum_name_length THEN None ELSE nm
    IN  IF IsNone(nm1) /\ kept # {}
        THEN { << Some(a), kept >> :
                 a \in { b \in kept : \A c \in kept : Len(c) <= Len(b) } }
        ELSE { << nm1, kept >> }

reconcile_aliases(nm, als) ==
    LET kept == { a \in als : Len(a) > minimum_name_length }
        nm1 == IF ~IsNone(nm) /\ Len(nm[1]) <= minimum_name_length THEN None ELSE nm
    IN  IF IsNone(nm1) /\ kept # {}
        THEN { << Some(a), kept \ {a} >> :
                 a \in { b \in kept : \A c \in kept : Len(c) <= Len(b) } }
        ELSE { << nm1, kept >> }

\* A document, as far as its names go: the texts of credit-name, given-names,
\* family-name (None when the element is absent) and of the other-name elements.
Doc(orcid, credit, given, family, others) ==
    [orcid |-> orcid, credit_name |-> credit, given_names |-> given,
     family_name |-> family, other_names |-> others]

Truthy(o) == ~IsNone(o) /\ Len(o[1]) > 0

\* a mutant of _process_file that leaves the name among the aliases
process_file_keeps_duplicate(doc) ==
    LET label_name == IF Truthy(doc.family_name) /\ Truthy(doc.given_names)
                      THEN Some(Strip(doc.given_names[1]) \o <<" ">>
                                  \o Strip(doc.family_name[1]))
                      ELSE None
        credit_name == IF Truthy(doc.credit_name)
                       THEN Some(Strip(doc.credit_name[1])) ELSE doc.credit_name
    IN  IF ~Truthy(credit_name) /\ IsNone(label_name) THEN {}
        ELSE
          LET picked == IF ~Truthy(credit_name) THEN label_name[1] ELSE credit_name[1]
              labels == IF Truthy(credit_name) /\ ~IsNone(label_name)
                        THEN {label_name[1]} ELSE {}
              cleaned == IF Len(picked) > 0 THEN clean_name(picked) ELSE picked
              aliases == labels \cup _iter_other_names(doc.other_names)
          IN  { [orcid |-> doc.orcid, name |-> r[1][1], aliases |-> r[2]] :
                  r \in { p \in reconcile_aliases(Some(cleaned), aliases) :
                            ~IsNone(p[1]) } }

\* _process_file, names: the set of the records it can return for a document
\* (empty when it returns None)
_process_file(doc) ==
    LET label_name == IF Truthy(doc.family_name) /\ Truthy(doc.given_names)
                      THEN Some(Strip(doc.given_names[1]) \o <<" ">>
                                  \o Strip(doc.family_name[1]))
                      ELSE None
        credit_name == IF Truthy(doc.credit_name)
                       THEN Some(Strip(doc.credit_name[1])) ELSE doc.credit_name
    IN  IF ~Truthy(credit_name) /\ IsNone(label_name) THEN {}
        ELSE
          LET picked == IF ~Truthy(credit_name) THEN label_name[1] ELSE credit_name[1]
              labels == IF Truthy(credit_name) /\ ~IsNone(label_name)
                        THEN {label_name[1]} ELSE {}
              cleaned == IF Len(picked) > 0 THEN clean_name(picked) ELSE picked
              aliases == (labels \cup _iter_other_names(doc.other_names)) \ {cleaned}
          IN  { [orcid |-> doc.orcid, name |-> r[1][1], aliases |-> r[2]] :
                  r \in { p \in reconcile_aliases(Some(cleaned), aliases) :
                            ~IsNone(p[1]) } }

---------------------------------------------------------------------------
(* lexical.py: the lexical index and the grounding of a name               *)

\* gilda.process.normalize(s), on the characters of the model: every run of
\* whitespace becomes one space and the text is lower-cased.  Leading and
\* trailing whitespace is kept (one space), which is why the code tests
\* normalize(x).strip().
RECURSIVE replace_whitespace(_)
replace_whitespace(s) ==
    IF Len(s) = 0 THEN <<>>
    ELSE IF s[1] = " " THEN <<" ">> \o replace_whitespace(LStripChar(s, " "))
    ELSE <<s[1]>> \o replace_whitespace(Tail(s))

normalize(s) == Lower(replace_whitespace(s))

\* LiteralMapping.to_gilda(): the row of the term with its key
Term(txt, id, status) ==
    [norm_text |-> normalize(txt), text |-> txt, id |-> id, status |-> status]

\* _record_to_literal_mappings(record): the set of the terms it yields (each
\* text is yielded once: the synonyms are collected in a set).  A mutant that
\* forgets the variants of the canonical name comes first.
record_to_literal_mappings_no_name_variants(record) ==
    IF Len(record.name) = 0 \/ Len(Strip(normalize(record.name))) = 0 THEN {}
    ELSE
      LET kept == { a \in record.aliases : Len(Strip(normalize(a))) > 0 }
          aliases == (kept \cup UNION { Range(name_to_synonyms(a)) : a \in kept })
                       \ {record.name}
      IN  { Term(record.name, record.orcid, "name") }
            \cup { Term(a, record.orcid, "synonym") : a \in { b \in aliases : Len(b) > 0 } }

\* a mutant that does not take the canonical name out of the synonyms
record_to_literal_mappings_keeps_name(record) ==
    IF Len(record.name) = 0 \/ Len(Strip(normalize(record.name))) = 0 THEN {}
    ELSE
      LET kept == { a \in record.aliases : Len(Strip(normalize(a))) > 0 }
          aliases == Range(name_to_synonyms(record.name)) \cup kept
                        \cup UNION { Range(name_to_synonyms(a)) : a \in kept }
                        \cup {record.name}
      IN  { Term(record.name, record.orcid, "name") }
            \cup { Term(a, record.orcid, "synonym") : a \in { b \in aliases : Len(b) > 0 } }

\* a mutant that keeps the aliases whose normalized text is empty
record_to_literal_mappings_no_alias_filter(record) ==
    IF Len(record.name) = 0 \/ Len(Strip(normalize(record.name))) = 0 THEN {}
    ELSE
      LET kept == { a \in record.aliases : Len(Strip(normalize(a))) > 0 }
          aliases == (Range(name_to_synonyms(record.name)) \cup record.aliases
                        \cup UNION { Range(name_to_synonyms(a)) : a \in kept })
                       \ {record.name}
      IN  { Term(record.name, record.orcid, "name") }
            \cup { Term(a, record.orcid, "synonym") : a \in { b \in aliases : Len(b) > 0 } }

_record_to_literal_mappings(record) ==
    IF Len(record.name) = 0 \/ Len(Strip(normalize(record.name))) = 0 THEN {}
    ELSE
      LET kept == { a \in record.aliases : Len(Strip(normalize(a))) > 0 }
          aliases == (Range(name_to_synonyms(record.name)) \cup kept
                        \cup UNION { Range(name_to_synonyms(a)) : a \in kept })
                       \ {record.name}
      IN  { Term(record.name, record.orcid, "name") }
            \cup { Term(a, record.orcid, "synonym") : a \in { b \in aliases : Len(b) > 0 } }

\* the rows write_lexical_sqlite inserts for a record stream
LexicalRows(rs) ==
    UNION { { t \in _record_to_literal_mappings(rs[i]) :
                Len(Strip(normalize(t.text))) > 0 } :
            i \in { j \in 1..Len(rs) : Len(rs[j].name) > 0 } }

\* UngroupedSqliteEntries.get(key): SELECT term FROM terms WHERE norm_text = key
EntriesGet(table, key) == { t \in table : t.norm_text = key }

\* gilda's score of a term for a query: an exact match of the text outranks
\* any other, and a name outranks a synonym
Score(raw, t) ==
    (IF t.text = raw THEN 2 ELSE 0) + (IF t.status = "name" THEN 1 ELSE 0)

\* ssslm.GildaGrounder.get_matches(text) over gilda.Grounder.ground: the query
\* is stripped, its normalized form is looked up, and the terms found are
\* merged per identity (the best-scoring term of each identity is the match)
GildaGetMatches(table, txt) ==
    LET raw == Strip(txt)
        found == EntriesGet(table, normalize(raw))
        ids == { t.id : t \in found }
        best(i) == CHOOSE t \in found :
                     /\ t.id = i
                     /\ \A u \in found : u.id = i => Score(raw, u) <= Score(raw, t)
    IN  { best(i) : i \in ids }

\* ground_researcher_unambiguous(name), on the matches ground_researcher
\* returned: None unless there is exactly one match; with one match it
\* evaluates matches[0].term.id.  The matches are ssslm.Match objects (the
\* repository reads match.identifier from them, api.py line 929 and
\* tests/test_api.py line 22), a Match has a reference and a score and no
\* attribute term, so the expression raises AttributeError.
ground_researcher_unambiguous(ms) ==
    IF Cardinality(ms) # 1
    THEN [raised |-> FALSE, value |-> None]
    ELSE [raised |-> TRUE, value |-> None]

\* Grounder.get_best_match: the best-scoring match, or None
get_best_match(ms, txt) ==
    IF ms = {} THEN None
    ELSE Some(CHOOSE m \in ms : \A u \in ms : Score(Strip(txt), u) <= Score(Strip(txt), m))

---------------------------------------------------------------------------
(* Grounding: the index is built from a record stream, then one name is     *)
(* grounded through ExtendedMatcher.get_matches                             *)

\* the documents the records of the stream are extracted from
GroundDocs(orcid) ==
    { Doc(orcid, Some(<<"D","r"," "," ","J","a","n","e"," ","D","o","e">>), None, None, <<>>),
      Doc(orcid, None, Some(<<"J","a","n","e">>), Some(<<"D","o","e">>), <<>>),
      Doc(orcid, Some(<<"J","a","n","e"," ","D","o","e">>), None, None, << <<"J","a","n","e"," ","D","O","E">> >>),
      Doc(orcid, None, Some(<<"C","h","a","r","l","e","s"," ","T","a","p","l","e","y">>), Some(<<"H","o","y","t">>), <<>>),
      Doc(orcid, Some(<<"D","r"," "," ","S","m","i","t","h">>), None, None, <<>>),
      Doc(orcid, Some(<<"S","m","i","t","h">>), None, None, <<>>),
      Doc(orcid, Some(<<"J","a","n","e"," ","Q","."," ","P","u","b","l","i","c">>), None, None, <<>>),
      Doc(orcid, Some(<<"C"," ","H","o","y","t">>), Some(<<"C","h","a","r","l","e","s">>), Some(<<"H","o","y","t">>), <<>>) }

\* the record stream holds at most MaxRecords records
MaxRecords == 2

\* the record streams of n records: record i is extracted from a document
\* whose ORCID is i
RECURSIVE RecordStreams(_)
RecordStreams(n) ==
    IF n = 0 THEN { <<>> }
    ELSE { Append(rs, r) :
             rs \in RecordStreams(n - 1),
             r \in UNION { _process_file(d) : d \in GroundDocs(n) } }

\* the initials form of a name of two or more tokens: the first letter of each
\* given name, separated by spaces, then the family token
InitialsForm(nm) ==
    LET toks == Split(nm)
    IN  Join(<<" ">>, Initials(Take(toks, Len(toks) - 1))) \o <<" ">> \o toks[Len(toks)]

FixedQueries == { <<>>, <<" ">>, <<"a","b","c","d","e","f","g","h","i","j","k","l","m","n","o","p">>, <<"A","l"," ","Z","e","d">>, <<"J","o"," ","D","o","e">> }

Queries(rs) ==
    FixedQueries
      \cup { rs[i].name : i \in 1..Len(rs) }
      \cup { InitialsForm(rs[i].name) : i \in { j \in 1..Len(rs) : Len(Split(rs[j].name)) >= 2 } }

InitGround ==
    /\ records \in UNION { RecordStreams(n) : n \in 1..MaxRecords }
    /\ terms = {}
    /\ builds = <<>>
    /\ gpc = "records"
    /\ text = <<>>
    /\ lookups = <<>>
    /\ matches = {}
    /\ answer = None
    /\ NamesIdle
    /\ IngestIdle
    /\ ExtractIdle
    /\ ReconcileIdle
    /\ RunIdle

\* the table is built at most MaxBuilds times
MaxBuilds == 2

\* a mutant of write_lexical_sqlite that keeps the rows the table held
write_lexical_sqlite_appends ==
    /\ gpc = "records"
    /\ Len(builds) < MaxBuilds
    /\ builds' = Append(builds, terms)
    /\ terms' = terms \cup LexicalRows(records)
    /\ gpc' = "built"
    /\ UNCHANGED <<records, text, lookups, matches, answer, notGround>>

\* write_lexical_sqlite: the database file is removed if present, the table
\* is created and filled from the record stream
write_lexical_sqlite ==
    /\ gpc = "records"
    /\ Len(builds) < MaxBuilds
    /\ builds' = Append(builds, terms)
    /\ terms' = LexicalRows(records)
    /\ gpc' = "built"
    /\ UNCHANGED <<records, text, lookups, matches, answer, notGround>>

\* ExtendedMatcher.get_matches(text), lines 96-97: the lookup of the text itself
GetMatchesExact ==
    /\ gpc = "built"
    /\ \E q \in Queries(records) :
         /\ text' = q
         /\ lookups' = <<q>>
         /\ LET ms == GildaGetMatches(terms, q)
            IN  IF ms # {}
                THEN matches' = ms /\ gpc' = "returned"
                ELSE matches' = {} /\ gpc' = "synonyms"
    /\ UNCHANGED <<records, terms, builds, answer, notGround>>

\* lines 98-100: the next synonym the generator yields is looked up.  A mutant
\* that goes on to the next synonym after a hit comes first.
GetMatchesSynonymKeepsGoing ==
    /\ gpc = "synonyms"
    /\ ~name_to_synonyms_raises(text)
    /\ Len(lookups) <= Len(name_to_synonyms(text))
    /\ LET synonym == name_to_synonyms(text)[Len(lookups)]
           ms == GildaGetMatches(terms, synonym)
       IN  /\ lookups' = Append(lookups, synonym)
           /\ matches' = ms
           /\ gpc' = IF ms # {} /\ Len(lookups) = Len(name_to_synonyms(text))
                     THEN "returned" ELSE "synonyms"
    /\ UNCHANGED <<records, terms, builds, text, answer, notGround>>

GetMatchesSynonym ==
    /\ gpc = "synonyms"
    /\ ~name_to_synonyms_raises(text)
    /\ Len(lookups) <= Len(name_to_synonyms(text))
    /\ LET synonym == name_to_synonyms(text)[Len(lookups)]
           ms == GildaGetMatches(terms, synonym)
       IN  /\ lookups' = Append(lookups, synonym)
           /\ IF ms # {}
              THEN matches' = ms /\ gpc' = "returned"
              ELSE matches' = {} /\ gpc' = "synonyms"
    /\ UNCHANGED <<records, terms, builds, text, answer, notGround>>

\* line 101: the generator is exhausted and the result is the empty list
GetMatchesExhausted ==
    /\ gpc = "synonyms"
    /\ ~name_to_synonyms_raises(text)
    /\ Len(lookups) > Len(name_to_synonyms(text))
    /\ matches' = {}
    /\ gpc' = "returned"
    /\ UNCHANGED <<records, terms, builds, text, lookups, answer, notGround>>

\* line 98 with a text of no token: the generator's unpacking raises
\* ValueError, which get_matches does not catch
GetMatchesRaises ==
    /\ gpc = "synonyms"
    /\ name_to_synonyms_raises(text)
    /\ gpc' = "raised"
    /\ UNCHANGED <<records, terms, builds, text, lookups, matches, answer, notGround>>

\* ground_researcher_unambiguous(name), once ground_researcher has returned
GroundResearcherUnambiguous ==
    /\ gpc = "returned"
    /\ LET r == ground_researcher_unambiguous(matches)
       IN  /\ answer' = r.value
           /\ gpc' = IF r.raised THEN "unambiguous_raised" ELSE "unambiguous"
    /\ UNCHANGED <<records, terms, builds, text, lookups, matches, notGround>>

\* grounder.get_best_match(text), once get_matches has returned
GetBestMatch ==
    /\ gpc = "returned"
    /\ answer' = get_best_match(matches, lookups[Len(lookups)])
    /\ gpc' = "best"
    /\ UNCHANGED <<records, terms, builds, text, lookups, matches, notGround>>

NextGround ==
    \/ write_lexical_sqlite
    \/ GetMatchesExact
    \/ GetMatchesSynonym
    \/ GetMatchesExhausted
    \/ GetMatchesRaises
    \/ GroundResearcherUnambiguous
    \/ GetBestMatch

SpecGround == InitGround /\ [][NextGround]_vars

---------------------------------------------------------------------------
(* api.py: iter_records over the summaries archive and the records file     *)

\* What a member of the archive is to the extraction: an XML document that
\* gives a record, one for which _process_file returns None, one that
\* etree.parse cannot parse, or a member that is no .xml file.
MemberKinds == {"record", "none", "malformed", "other"}

\* the archive holds at most MaxMembers members
MaxMembers == 3
\* iter_records is called at most MaxCalls times
MaxCalls == 2

Archives == UNION { [1..n -> MemberKinds] : n \in 1..MaxMembers }

\* the records a complete extraction of the archive gives: a record is named
\* by the place of its document
AllRecords(a) == { i \in 1..Len(a) : a[i] = "record" }

\* no call of iter_records is running
IngestAtRest == ipc \in {"idle", "exhausted", "raised", "closed", "interrupted"}

\* the generator is suspended at `yield record` (line 457)
SuspendedAtYield == ipc = "extracting" /\ pos > 0 /\ archive[pos] = "record"

InitIngest ==
    /\ archive \in Archives
    /\ records_file = [exists |-> FALSE, lines |-> <<>>]
    /\ ipc = "idle"
    /\ source = "none"
    /\ pos = 0
    /\ yielded = <<>>
    /\ calls = 0
    /\ NamesIdle
    /\ GroundIdle
    /\ ExtractIdle
    /\ ReconcileIdle
    /\ RunIdle

\* iter_records(force=False) with the records file present (lines 398-404)
IterRecordsCached ==
    /\ IngestAtRest
    /\ calls < MaxCalls
    /\ records_file.exists
    /\ ipc' = "reading"
    /\ source' = "cache"
    /\ pos' = 0
    /\ yielded' = <<>>
    /\ calls' = calls + 1
    /\ UNCHANGED <<archive, records_file, notIngest>>

\* iter_records with force, or without the records file (lines 406-437):
\* gzip.open(records_path, "wt") creates or truncates the file
IterRecordsExtract ==
    /\ IngestAtRest
    /\ calls < MaxCalls
    /\ \E force \in BOOLEAN : force \/ ~records_file.exists
    /\ ipc' = "extracting"
    /\ source' = "archive"
    /\ records_file' = [exists |-> TRUE, lines |-> <<>>]
    /\ pos' = 0
    /\ yielded' = <<>>
    /\ calls' = calls + 1
    /\ UNCHANGED <<archive, notIngest>>

\* _iter_tarfile_members skips a member that is no .xml file (lines 378-379)
SkipMember ==
    /\ ipc = "extracting"
    /\ pos < Len(archive)
    /\ archive[pos + 1] = "other"
    /\ pos' = pos + 1
    /\ UNCHANGED <<archive, records_file, ipc, source, yielded, calls, notIngest>>

\* record = f(file) is None (lines 448-450)
ProcessFileNone ==
    /\ ipc = "extracting"
    /\ pos < Len(archive)
    /\ archive[pos + 1] = "none"
    /\ pos' = pos + 1
    /\ UNCHANGED <<archive, records_file, ipc, source, yielded, calls, notIngest>>

\* record = f(file) is a record: its line is written and it is yielded
\* (lines 451-457)
ProcessFileRecord ==
    /\ ipc = "extracting"
    /\ pos < Len(archive)
    /\ archive[pos + 1] = "record"
    /\ records_file' = [records_file EXCEPT !.lines = Append(@, pos + 1)]
    /\ yielded' = Append(yielded, pos + 1)
    /\ pos' = pos + 1
    /\ UNCHANGED <<archive, ipc, source, calls, notIngest>>

\* etree.parse(file) raises on a document it cannot parse (line 502); nothing
\* in iter_records catches it, the with block closes the files and the
\* exception leaves the generator
ProcessFileRaises ==
    /\ ipc = "extracting"
    /\ pos < Len(archive)
    /\ archive[pos + 1] = "malformed"
    /\ ipc' = "raised"
    /\ UNCHANGED <<archive, records_file, source, pos, yielded, calls, notIngest>>

\* the archive is exhausted: the files are closed and the generator returns
\* (lines 459-465)
ExtractExhausted ==
    /\ ipc = "extracting"
    /\ pos = Len(archive)
    /\ ipc' = "exhausted"
    /\ UNCHANGED <<archive, records_file, source, pos, yielded, calls, notIngest>>

\* the consumer stops iterating (head of a zip, a break, an exception of its
\* own): the generator is closed at its yield and the with block closes the files
ConsumerCloses ==
    /\ SuspendedAtYield
    /\ ipc' = "closed"
    /\ UNCHANGED <<archive, records_file, source, pos, yielded, calls, notIngest>>

\* the run is interrupted (KeyboardInterrupt, the process ends)
Interrupted ==
    /\ ipc = "extracting"
    /\ ipc' = "interrupted"
    /\ UNCHANGED <<archive, records_file, source, pos, yielded, calls, notIngest>>

\* a line of the records file is validated and yielded (lines 400-404)
ReadCachedRecord ==
    /\ ipc = "reading"
    /\ pos < Len(records_file.lines)
    /\ yielded' = Append(yielded, records_file.lines[pos + 1])
    /\ pos' = pos + 1
    /\ UNCHANGED <<archive, records_file, ipc, source, calls, notIngest>>

ReadCachedExhausted ==
    /\ ipc = "reading"
    /\ pos = Len(records_file.lines)
    /\ ipc' = "exhausted"
    /\ UNCHANGED <<archive, records_file, source, pos, yielded, calls, notIngest>>

NextIngest ==
    \/ IterRecordsCached
    \/ IterRecordsExtract
    \/ SkipMember
    \/ ProcessFileNone
    \/ ProcessFileRecord
    \/ ProcessFileRaises
    \/ ExtractExhausted
    \/ ConsumerCloses
    \/ Interrupted
    \/ ReadCachedRecord
    \/ ReadCachedExhausted

SpecIngest == InitIngest /\ [][NextIngest]_vars

\* C9: a malformed document does not end the stream: when the extraction of
\* the archive ends by itself (it returns or raises), the record of every
\* well-formed document has been yielded.  Stated as in the claim; the
\* exception of etree.parse ends the generator at the malformed document.
C9_MalformedDoesNotEndStream ==
    (source = "archive" /\ ipc \in {"exhausted", "raised"})
        => AllRecords(archive) \subseteq Range(yielded)

\* C10: the output of a run that did not exhaust the archive is discarded: a
\* call that serves the records file serves the records of a complete run.
\* Stated as in the claim; the file a failed run leaves is served as it is.
C10_PartialOutputDiscarded ==
    ipc = "reading" => Range(records_file.lines) = AllRecords(archive)

---------------------------------------------------------------------------
(* Grounding: the claims                                                    *)

\* get_matches has returned (and perhaps its caller has answered)
Returned == gpc \in {"returned", "unambiguous", "unambiguous_raised", "best"}

\* the texts get_matches is to look up, in order: the text itself, then the
\* synonyms in the order of the generator
LookupPlan == <<text>> \o name_to_synonyms(text)

\* the rows of the index found by the lookup that gave the result
FinalHits ==
    IF matches = {} THEN {}
    ELSE EntriesGet(terms, normalize(Strip(lookups[Len(lookups)])))

MatchedIds == { m.id : m \in matches }

\* the records of the stream that have a row in the index
Indexed == { i \in 1..Len(records) : \E t \in terms : t.id = records[i].orcid }

\* C3: ground_researcher_unambiguous returns an identity exactly when the
\* rows found for the query belong to one identity, however many rows that
\* identity has, and None when no row is found or the rows belong to two or
\* more identities.  Stated as in the claim; with one match the function
\* raises AttributeError instead of returning the identity.
C3_UnambiguousIffOneIdentity ==
    gpc \in {"unambiguous", "unambiguous_raised"} =>
        LET ids == { t.id : t \in FinalHits }
        IN  /\ gpc = "unambiguous"
            /\ IF Cardinality(ids) = 1
               THEN answer = Some(CHOOSE i \in ids : TRUE)
               ELSE answer = None

\* C4: when two or more records of the index have the same canonical name,
\* grounding that name gives a match for each of them.  Stated as in the
\* claim; it fails for a shared name that begins with a space (see C5).
C4_SharedNameGroundsToAll ==
    Returned =>
        LET sharing == { i \in Indexed : records[i].name = text }
        IN  Cardinality(sharing) >= 2
              => \A i \in sharing : records[i].orcid \in MatchedIds

\* C5: grounding the canonical name of a record of the stream, when its
\* normalized text is not empty, gives a match of kind name on that record.
\* Stated as in the claim; the key of the row keeps the leading space that
\* clean_name leaves, and the query is stripped before it is looked up.
C5_RoundTrip ==
    Returned =>
        \A i \in 1..Len(records) :
            (records[i].name = text /\ Len(Strip(normalize(text))) > 0)
                => \E m \in matches : m.id = records[i].orcid /\ m.status = "name"

\* C6: the text itself is looked up first; the synonyms are looked up in the
\* order of the generator and only while every lookup so far found nothing;
\* the result is what the last lookup found, and it is empty only when every
\* text of the plan has been looked up.
C6_LookupOrder ==
    (gpc = "synonyms" \/ gpc = "raised" \/ Returned) =>
        LET n == Len(lookups)
        IN  /\ n >= 1
            /\ n <= Len(LookupPlan)
            /\ lookups = SubSeq(LookupPlan, 1, n)
            /\ \A i \in 1..(n - 1) : GildaGetMatches(terms, lookups[i]) = {}
            /\ gpc \in {"synonyms", "raised"}
                 => matches = {} /\ GildaGetMatches(terms, lookups[n]) = {}
            /\ Returned
                 => /\ matches = GildaGetMatches(terms, lookups[n])
                    /\ matches = {} => n = Len(LookupPlan)

\* the result came from a synonym after earlier lookups found nothing, and
\* later synonyms were left alone
C6_Witness ==
    /\ gpc = "returned"
    /\ matches # {}
    /\ Len(lookups) >= 3
    /\ Len(lookups) < Len(LookupPlan)

\* C7: when the text and every synonym find nothing, the result is the empty
\* list and get_best_match gives None, also for a text of one or of no token.
\* Stated as in the claim; for a text of no token the generator raises.
C7_NoHitGivesEmptyList ==
    (\A i \in 1..Len(LookupPlan) : GildaGetMatches(terms, LookupPlan[i]) = {})
        => /\ gpc # "raised"
           /\ Returned => matches = {}
           /\ gpc = "best" => answer = None

\* C8: grounding the initials form of the canonical name of an indexed record
\* of two or more tokens gives a match on that record.
C8_InitialsFormGrounds ==
    \A i \in Indexed :
        (Len(Split(records[i].name)) >= 2 /\ text = InitialsForm(records[i].name))
            => /\ gpc # "raised"
               /\ Returned => records[i].orcid \in MatchedIds

\* "C T Hoyt" grounds to the record named "Charles Tapley Hoyt"
C8_Witness ==
    /\ gpc = "returned"
    /\ \E i \in Indexed :
         /\ Len(Split(records[i].name)) >= 3
         /\ text = InitialsForm(records[i].name)
         /\ text # records[i].name
         /\ records[i].orcid \in MatchedIds

---------------------------------------------------------------------------
(* api.py: the other fields of a record                                     *)

\* a dict of str to str is the set of its items <<key, value>>
Keys(d) == { item[1] : item \in d }
Put(d, k, v) == { item \in d : item[1] # k } \cup { <<k, v>> }

\* s contains sub; the part of s before, and after, the first sub
RECURSIVE Find(_, _, _)
Find(s, sub, i) ==
    IF i + Len(sub) - 1 > Len(s) THEN 0
    ELSE IF SubSeq(s, i, i + Len(sub) - 1) = sub THEN i
    ELSE Find(s, sub, i + 1)
ContainsSub(s, sub) == Find(s, sub, 1) > 0
Before(s, sub) == IF ContainsSub(s, sub) THEN Take(s, Find(s, sub, 1) - 1) ELSE s
After(s, sub) == Drop(s, Find(s, sub, 1) + Len(sub) - 1)

\* str.isnumeric(), on the characters of the model: the decimal digits
IsDigit(c) == c \in {"0", "1", "2", "3", "4", "5", "6", "7", "8", "9"}
IsNumeric(s) == Len(s) > 0 /\ \A i \in 1..Len(s) : IsDigit(s[i])

\* _norm_key(id_type)
_norm_key(id_type) == RStripChar(Replace(Lower(id_type), <<" ">>, <<>>), ":")

\* EXTERNAL_ID_SKIP: the normalized keys of the table.  The key written in
\* Chinese characters is left out: the strings of the model are ASCII.
EXTERNAL_ID_SKIP ==
    { _norm_key(k) : k \in {
        <<"i","A","u","t","h","o","r">>, <<"J","R","I","N">>, <<"O","R","C","I","D">>, <<"O","R","C","I","D"," ","i","d">>, <<"e","S","c","i","e","n","t","i","s","t">>,
        <<"U","N","E"," ","R","e","s","e","a","r","c","h","e","r"," ","I","D">>, <<"U","O","W"," ","S","c","h","o","l","a","r","s">>, <<"U","S"," ","E","P","A"," ","V","I","V","O">>, <<"C","h","a","l","m","e","r","s"," ","I","D">>,
        <<"H","K","U","S","T"," ","P","r","o","f","i","l","e">>, <<"C","u","s","t","o","m">>, <<"P","r","o","f","i","l","e"," ","s","y","s","t","e","m"," ","i","d","e","n","t","i","f","i","e","r">>, <<"C","T","I"," ","V","i","t","a","e">>,
        <<"P","i","t","t"," ","I","D">>, <<"V","I","V","O"," ","C","o","r","n","e","l","l">>, <<"T","e","c","h","n","i","c","a","l"," ","U","n","i","v","e","r","s","i","t","y"," ","o","f"," ","D","e","n","m","a","r","k"," ","C","W","I","S">>,
        <<"H","K","U"," ","R","e","s","e","a","r","c","h","e","r","P","a","g","e">>, <<"D","i","g","i","t","a","l"," ","A","u","t","h","o","r"," ","I","D">>, <<"D","i","g","i","t","a","l"," ","A","u","t","h","o","r"," ","I","D"," ","(","D","A","I",")">>,
        <<"d","a","i">> } }

\* EXTERNAL_ID_MAPPING before its keys are normalized.  The key "Ciência ID"
\* (to cienciavitae) is left out: the strings of the model are ASCII.
ExternalIdMappingItems ==
    { <<<<"R","e","s","e","a","r","c","h","e","r","I","D">>, "wos.researcher">>, <<<<"R","I","D">>, "wos.researcher">>,
      <<<<"W","e","b"," ","o","f"," ","S","c","i","e","n","c","e"," ","R","e","s","e","a","r","c","h","e","r"," ","I","D">>, "wos.researcher">>,
      <<<<"o","t","h","e","r","-","i","d"," ","-"," ","W","e","b"," ","o","f"," ","S","c","i","e","n","c","e">>, "wos.researcher">>,
      <<<<"S","c","o","p","u","s"," ","A","u","t","h","o","r"," ","I","D">>, "scopus">>, <<<<"S","c","o","p","u","s"," ","I","D">>, "scopus">>,
      <<<<"I","D"," ","d","e"," ","a","u","t","o","r"," ","d","e"," ","S","c","o","p","u","s">>, "scopus">>,
      <<<<"?","?","?","p","e","r","s","o","n",".","p","e","r","s","o","n","s","o","u","r","c","e","s",".","s","c","o","p","u","s","a","u","t","h","o","r","?","?","?">>, "scopus">>,
      <<<<"L","o","o","p"," ","p","r","o","f","i","l","e">>, "loop">>, <<<<"g","i","t","h","u","b">>, "github">>, <<<<"I","S","N","I">>, "isni">>,
      <<<<"G","o","o","g","l","e"," ","S","c","h","o","l","a","r">>, "google.scholar">>, <<<<"g","n","d">>, "gnd">>,
      <<<<"A","u","t","h","e","n","t","i","c","u","s">>, "authenticus">>, <<<<"A","u","t","h","e","n","t","i","c","u","s","I","D">>, "authenticus">>,
      <<<<"A","u","t","h","I","D">>, "authenticus">>, <<<<"I","D"," ","D","i","a","l","n","e","t">>, "dialnet.author">>,
      <<<<"D","i","a","l","n","e","t"," ","I","D">>, "dialnet.author">>, <<<<"S","c","i","P","r","o","f","i","l","e","s">>, "sciprofiles">>,
      <<<<"S","c","i","p","r","o","f","i","l","e">>, "sciprofiles">>, <<<<"K","A","K","E","N">>, "kaken">>,
      <<<<"R","e","s","e","a","r","c","h","e","r"," ","N","a","m","e"," ","R","e","s","o","l","v","e","r"," ","I","D">>, "kaken">>, <<<<"S","S","R","N">>, "ssrn.author">>,
      <<<<"s","o","c","i","a","l","s","c","i","e","n","c","e","r","e","s","e","a","r","c","h","n","e","t","w","o","r","k">>, "ssrn.author">>,
      <<<<"s","s","r","n","a","u","t","h","o","r","p","a","g","e">>, "ssrn.author">>, <<<<"s","s","r","n","p","a","g","e">>, "ssrn.author">> }

\* EXTERNAL_ID_MAPPING: a function of the normalized keys
EXTERNAL_ID_MAPPING ==
    [ k \in { _norm_key(item[1]) : item \in ExternalIdMappingItems } |->
        (CHOOSE item \in ExternalIdMappingItems : _norm_key(item[1]) = k)[2] ]

PERSONAL_KEYS ==
    { <<"w","e","b","s","i","t","e">>, <<"h","o","m","e","p","a","g","e">>, <<"b","l","o","g">>, <<"p","e","r","s","o","n","a","l","p","a","g","e">>, <<"p","e","r","s","o","n","a","l","h","o","m","e","p","a","g","e">>,
      <<"p","e","r","s","o","n","a","l","w","e","b","s","i","t","e">>, <<"p","e","r","s","o","n","a","l","w","e","b","s","i","t","e","s">>, <<"p","e","r","s","o","n","a","l","w","e","b","-","p","a","g","e">>,
      <<"p","e","r","s","o","n","a","l","w","e","b","p","a","g","e">>, <<"w","e","b","p","a","g","e">>, <<"p","e","r","s","o","n","a","l">>, <<"p","r","o","f","e","s","s","i","o","n","a","l","w","e","b","s","i","t","e">>,
      <<"p","e","r","s","o","n","a","l","s","i","t","e">>, <<"p","e","r","s","o","n","a","l","b","l","o","g">>, <<"m","y","w","e","b","s","i","t","e">>, <<"m","y","s","i","t","e">>,
      <<"o","f","f","i","c","i","a","l","w","e","b","-","p","a","g","e">>, <<"s","i","t","i","o","w","e","b","p","e","r","s","o","n","a","l">>, <<"p","a","g","i","n","a","w","e","b">>,
      <<"p","e","r","s","o","n","e","l","w","e","b","s","i","t","e">>, <<"b","l","o","g","p","e","s","s","o","a","l">>, <<"m","y","p","e","r","s","o","n","a","l","s","i","t","e">>, <<"m","y","p","e","r","s","o","n","a","l","b","l","o","g">>,
      <<"p","e","r","s","o","n","a","l","w","e","b","-","s","i","t","e">>, <<"w","e","b","-","s","i","t","e">>, <<"p","r","o","f","e","s","s","i","o","n","a","l","b","l","o","g">>,
      <<"p","e","r","s","o","n","a","l","w","e","b","s","i","t","e","a","n","d","b","l","o","g">>, <<"m","y","w","e","b">>, <<"h","o","m","e","w","e","b","s","i","t","e">>, <<"p","e","r","s","o","n","a","l","w","e","b">>,
      <<"m","y","p","e","r","s","o","n","a","l","w","e","b","s","i","t","e">>, <<"b","l","o","g","p","e","r","s","o","n","a","l">> }

\* An external-identifier element: the texts of external-id-type and
\* external-id-value (None when the element is absent)
ExternalId(type, value) == [type |-> type, value |-> value]

\* a mutant of the first loop that stores the identifiers of the skipped types
RECURSIVE ExternalIdLoopNoDenyTable(_, _, _)
ExternalIdLoopNoDenyTable(elements, rv, unmapped) ==
    IF Len(elements) = 0
    THEN [raised |-> FALSE, rv |-> rv, unmapped |-> unmapped]
    ELSE
      LET element == Head(elements)
          rest == Tail(elements)
      IN  IF ~Truthy(element.value) THEN ExternalIdLoopNoDenyTable(rest, rv, unmapped)
          ELSE IF IsNone(element.type)
          THEN [raised |-> TRUE, rv |-> rv, unmapped |-> unmapped]
          ELSE
            LET id_type == element.type[1]
                id_type_norm == _norm_key(id_type)
            IN  IF id_type_norm \in EXTERNAL_ID_SKIP
                THEN ExternalIdLoopNoDenyTable(rest, Put(rv, "orcid", element.value[1]), unmapped)
                ELSE IF id_type_norm \notin DOMAIN EXTERNAL_ID_MAPPING
                THEN ExternalIdLoopNoDenyTable(rest, rv, unmapped \cup {id_type})
                ELSE IF /\ EXTERNAL_ID_MAPPING[id_type_norm] = "wikidata"
                        /\ ~StartsWith(element.value[1], <<"Q">>)
                THEN ExternalIdLoopNoDenyTable(rest, rv, unmapped)
                ELSE ExternalIdLoopNoDenyTable(
                       rest,
                       Put(rv, EXTERNAL_ID_MAPPING[id_type_norm], element.value[1]),
                       unmapped)

\* _get_external_identifiers, first loop.  rv is the dict so far, unmapped the
\* set UNMAPPED_EXTERNAL_ID.  _norm_key(None) raises AttributeError.
RECURSIVE ExternalIdLoop(_, _, _)
ExternalIdLoop(elements, rv, unmapped) ==
    IF Len(elements) = 0
    THEN [raised |-> FALSE, rv |-> rv, unmapped |-> unmapped]
    ELSE
      LET element == Head(elements)
          rest == Tail(elements)
      IN  IF ~Truthy(element.value) THEN ExternalIdLoop(rest, rv, unmapped)
          ELSE IF IsNone(element.type)
          THEN [raised |-> TRUE, rv |-> rv, unmapped |-> unmapped]
          ELSE
            LET id_type == element.type[1]
                id_type_norm == _norm_key(id_type)
            IN  IF id_type_norm \in EXTERNAL_ID_SKIP
                THEN ExternalIdLoop(rest, rv, unmapped)
                ELSE IF id_type_norm \notin DOMAIN EXTERNAL_ID_MAPPING
                THEN ExternalIdLoop(rest, rv, unmapped \cup {id_type})
                ELSE IF /\ EXTERNAL_ID_MAPPING[id_type_norm] = "wikidata"
                        /\ ~StartsWith(element.value[1], <<"Q">>)
                THEN ExternalIdLoop(rest, rv, unmapped)
                ELSE ExternalIdLoop(
                       rest,
                       Put(rv, EXTERNAL_ID_MAPPING[id_type_norm], element.value[1]),
                       unmapped)

\* A researcher-url element: the texts of url-name (None when absent) and url
ResearcherUrl(url_name, url) == [name |-> url_name, url |-> url]

\* the place of the last c in s[1..i], 0 when there is none (str.rsplit)
RECURSIVE LastIndexOf(_, _, _)
LastIndexOf(s, c, i) ==
    IF i = 0 THEN 0 ELSE IF s[i] = c THEN i ELSE LastIndexOf(s, c, i - 1)

\* parse_qs(urlparse(url).query).get("user", [None])[0], for a URL without
\* percent escapes and plus signs: the first non-blank value of user
ScholarUser(url) ==
    LET base == Before(url, <<"#">>)
        query == IF ContainsSub(base, <<"?">>) THEN After(base, <<"?">>) ELSE <<>>
        pairs == SplitOn(query, "&")
        hits == { i \in 1..Len(pairs) :
                    StartsWith(pairs[i], <<"u","s","e","r","=">>) /\ Len(pairs[i]) > 5 }
    IN  IF hits = {} THEN None
        ELSE Some(Drop(pairs[CHOOSE i \in hits : \A j \in hits : i <= j], 5))

\* the body of the second loop of _get_external_identifiers for one element,
\* after the test for a personal page: url has lost its scheme
UrlBranches(rv, url_name, url) ==
    LET P(prefix) == StartsWith(url, prefix)
        R(prefix) == RemovePrefix(url, prefix)
    IN  IF P(<<"g","i","t","h","u","b",".","c","o","m","/">>)
        THEN LET identifier == Before(R(<<"g","i","t","h","u","b",".","c","o","m","/">>), <<"?">>)
             IN  IF ~Contains(identifier, "/") THEN Put(rv, "github", identifier) ELSE rv
        ELSE IF P(<<"w","w","w",".","g","i","t","h","u","b",".","c","o","m","/">>)
        THEN LET identifier == R(<<"w","w","w",".","g","i","t","h","u","b",".","c","o","m","/">>)
             IN  IF ~Contains(identifier, "/") THEN Put(rv, "github", identifier) ELSE rv
        ELSE IF P(<<"t","w","i","t","t","e","r",".","c","o","m","/">>) \/ P(<<"x",".","c","o","m","/">>) THEN rv
        ELSE IF ContainsSub(url, <<"f","a","c","e","b","o","o","k">>) \/ ContainsSub(url, <<"i","n","s","t","a","g","r","a","m">>) THEN rv
        ELSE IF P(<<"w","w","w",".","w","i","k","i","d","a","t","a",".","o","r","g","/","w","i","k","i","/">>)
        THEN Put(rv, "wikidata", R(<<"w","w","w",".","w","i","k","i","d","a","t","a",".","o","r","g","/","w","i","k","i","/">>))
        ELSE IF P(<<"t","o","o","l","s",".","w","m","f","l","a","b","s",".","o","r","g","/","s","c","h","o","l","i","a","/","a","u","t","h","o","r","/">>)
        THEN Put(rv, "wikidata", R(<<"t","o","o","l","s",".","w","m","f","l","a","b","s",".","o","r","g","/","s","c","h","o","l","i","a","/","a","u","t","h","o","r","/">>))
        ELSE IF ContainsSub(url, <<"l","i","n","k","e","d","i","n",".","c","o","m","/","i","n","/">>)
        THEN Put(rv, "linkedin",
                 Before(After(RStripChar(url, "/"), <<"l","i","n","k","e","d","i","n",".","c","o","m","/","i","n","/">>),
                        <<"l","i","n","k","e","d","i","n",".","c","o","m","/","i","n","/">>))
        ELSE IF ContainsSub(url, <<"s","c","h","o","l","a","r",".","g","o","o","g","l","e">>)
        THEN IF Truthy(ScholarUser(url))
             THEN Put(rv, "google.scholar", ScholarUser(url)[1]) ELSE rv
        ELSE IF P(<<"p","u","b","l","o","n","s",".","c","o","m","/","a","u","t","h","o","r","/">>)
        THEN Put(rv, "publons.researcher", Before(R(<<"p","u","b","l","o","n","s",".","c","o","m","/","a","u","t","h","o","r","/">>), <<"/">>))
        ELSE IF P(<<"w","w","w",".","r","e","s","e","a","r","c","h","g","a","t","e",".","n","e","t","/","p","r","o","f","i","l","e","/">>)
        THEN Put(rv, "researchgate.profile", R(<<"w","w","w",".","r","e","s","e","a","r","c","h","g","a","t","e",".","n","e","t","/","p","r","o","f","i","l","e","/">>))
        ELSE IF P(<<"w","w","w",".","s","c","o","p","u","s",".","c","o","m","/","a","u","t","h","i","d","/","d","e","t","a","i","l",".","u","r","i","?","a","u","t","h","o","r","I","d","=">>)
        THEN Put(rv, "scopus", R(<<"w","w","w",".","s","c","o","p","u","s",".","c","o","m","/","a","u","t","h","i","d","/","d","e","t","a","i","l",".","u","r","i","?","a","u","t","h","o","r","I","d","=">>))
        ELSE IF P(<<"w","w","w",".","w","e","b","o","f","s","c","i","e","n","c","e",".","c","o","m","/","w","o","s","/","a","u","t","h","o","r","/","r","e","c","o","r","d","/">>)
        THEN Put(rv, "wos.researcher", R(<<"w","w","w",".","w","e","b","o","f","s","c","i","e","n","c","e",".","c","o","m","/","w","o","s","/","a","u","t","h","o","r","/","r","e","c","o","r","d","/">>))
        ELSE IF P(<<"l","a","t","t","e","s",".","c","n","p","q",".","b","r","/">>)
        THEN Put(rv, "lattes", R(<<"l","a","t","t","e","s",".","c","n","p","q",".","b","r","/">>))
        ELSE IF P(<<"d","i","a","l","n","e","t",".","u","n","i","r","i","o","j","a",".","e","s","/","s","e","r","v","l","e","t","/","a","u","t","o","r","?","c","o","d","i","g","o","=">>)
        THEN Put(rv, "dialnet.author", R(<<"d","i","a","l","n","e","t",".","u","n","i","r","i","o","j","a",".","e","s","/","s","e","r","v","l","e","t","/","a","u","t","o","r","?","c","o","d","i","g","o","=">>))
        ELSE IF P(<<"p","a","p","e","r","s",".","s","s","r","n",".","c","o","m","/","s","o","l","3","/","c","f","_","d","e","v","/","A","b","s","B","y","A","u","t","h",".","c","f","m","?","p","e","r","_","i","d","=">>)
        THEN Put(rv, "ssrn.author", R(<<"p","a","p","e","r","s",".","s","s","r","n",".","c","o","m","/","s","o","l","3","/","c","f","_","d","e","v","/","A","b","s","B","y","A","u","t","h",".","c","f","m","?","p","e","r","_","i","d","=">>))
        ELSE IF P(<<"o","s","f",".","i","o","/">>) THEN Put(rv, "osf", R(<<"o","s","f",".","i","o","/">>))
        ELSE IF P(<<"v","i","a","f",".","o","r","g","/","v","i","a","f","/">>) THEN Put(rv, "viaf", R(<<"v","i","a","f",".","o","r","g","/","v","i","a","f","/">>))
        ELSE IF P(<<"i","e","e","e","x","p","l","o","r","e",".","i","e","e","e",".","o","r","g","/","a","u","t","h","o","r","/">>)
        THEN Put(rv, "ieee.author", R(<<"i","e","e","e","x","p","l","o","r","e",".","i","e","e","e",".","o","r","g","/","a","u","t","h","o","r","/">>))
        ELSE IF P(<<"l","o","o","p",".","f","r","o","n","t","i","e","r","s","i","n",".","o","r","g","/","p","e","o","p","l","e","/">>)
        THEN Put(rv, "loop",
                 RemoveSuffix(RemoveSuffix(R(<<"l","o","o","p",".","f","r","o","n","t","i","e","r","s","i","n",".","o","r","g","/","p","e","o","p","l","e","/">>),
                                           <<"/","o","v","e","r","v","i","e","w">>), <<"/","b","i","o">>))
        ELSE IF P(<<"d","b","l","p",".","o","r","g","/","p","i","d","/">>)
        THEN Put(rv, "dblp.author", RemoveSuffix(R(<<"d","b","l","p",".","o","r","g","/","p","i","d","/">>), <<".","h","t","m","l">>))
        ELSE IF P(<<"d","b","l","p",".","u","n","i","-","t","r","i","e","r",".","d","e","/","p","i","d","/">>)
        THEN Put(rv, "dblp.author", RemoveSuffix(R(<<"d","b","l","p",".","u","n","i","-","t","r","i","e","r",".","d","e","/","p","i","d","/">>), <<".","h","t","m","l">>))
        ELSE IF P(<<"h","u","b",".","d","o","c","k","e","r",".","c","o","m","/","u","/">>)
        THEN Put(rv, "dockerhub.user", R(<<"h","u","b",".","d","o","c","k","e","r",".","c","o","m","/","u","/">>))
        ELSE IF Truthy(url_name) /\ Lower(url_name[1]) = <<"m","a","s","t","o","d","o","n">>
        THEN LET u == RStripChar(url, "/")
                 k == LastIndexOf(u, "/", Len(u))
             IN  IF k = 0 THEN rv
                 ELSE Put(rv, "mastodon",
                          Drop(u, k) \o <<"@">>
                            \o RemoveSuffix(RemoveSuffix(Take(u, k - 1), <<"/","w","e","b">>),
                                            <<"/","m","e","d","i","a">>))
        \* any other named URL is counted in UNKNOWN_NAMES, which the model
        \* does not keep: it is written to url_names.tsv only
        ELSE rv

\* _get_external_identifiers, second loop
RECURSIVE ResearcherUrlLoop(_, _, _)
ResearcherUrlLoop(elements, rv, homepage) ==
    IF Len(elements) = 0 THEN [rv |-> rv, homepage |-> homepage]
    ELSE
      LET element == Head(elements)
          url == RStripChar(element.url, "/")
      IN  IF /\ Truthy(element.name)
             /\ IsNone(homepage)
             /\ _norm_key(element.name[1]) \in PERSONAL_KEYS
          THEN ResearcherUrlLoop(Tail(elements), rv, Some(url))
          ELSE ResearcherUrlLoop(
                 Tail(elements),
                 UrlBranches(rv, element.name,
                             RemovePrefix(RemovePrefix(RemovePrefix(url, <<"h","t","t","p","s",":","/","/">>),
                                                       <<"H","t","t","p","s",":","/","/">>), <<"h","t","t","p",":","/","/">>)),
                 homepage)

\* _get_external_identifiers(tree, orcid)
_get_external_identifiers(external_identifiers, researcher_urls, unmapped) ==
    LET first == ExternalIdLoop(external_identifiers, {}, unmapped)
        second == ResearcherUrlLoop(researcher_urls, first.rv, None)
    IN  [raised |-> first.raised, rv |-> second.rv, homepage |-> second.homepage,
         unmapped |-> first.unmapped]

PUBMED_PREFIXES ==
    << <<"h","t","t","p",":","/","/","w","w","w",".","n","c","b","i",".","n","l","m",".","n","i","h",".","g","o","v","/","p","u","b","m","e","d","/">>, <<"h","t","t","p","s",":","/","/","w","w","w",".","n","c","b","i",".","n","l","m",".","n","i","h",".","g","o","v","/","p","u","b","m","e","d","/">>,
       <<"h","t","t","p","s",":","/","/","w","w","w","-","n","c","b","i","-","n","l","m","-","n","i","h","-","g","o","v",".","p","r","o","x","y",".","b","i","b",".","u","c","l",".","a","c",".","b","e",":","2","4","4","3","/","p","u","b","m","e","d","/">>,
       <<"h","t","t","p",":","/","/","e","u","r","o","p","e","p","m","c",".","o","r","g","/","a","b","s","t","r","a","c","t","/","m","e","d","/">>, <<"h","t","t","p","s",":","/","/","p","u","b","m","e","d",".","n","c","b","i",".","n","l","m",".","n","i","h",".","g","o","v","/">>,
       <<"w","w","w",".","n","c","b","i",".","n","l","m",".","n","i","h",".","g","o","v","/","p","u","b","m","e","d","/">>, <<"P","M","I","D",":"," ">>, <<"P","M","I","D",":">>, <<"P","u","b","M","e","d"," ","P","M","I","D",":"," ">>,
       <<"M","E","D","L","I","N","E",":">>, <<"[","P","M","I","D",":"," ">>, <<"P","u","b","M","e","d",":">>, <<"P","u","b","M","e","d"," ","I","D",":"," ">>,
       <<"n","c","b","i",".","n","l","m",".","n","i","h",".","g","o","v","/","p","u","b","m","e","d","/">>, <<"P","M","i","d",":">>, <<"P","u","b","M","e","d"," ">>, <<"P","M","I","D">>, <<"P","M","I","D"," ">> >>

\* float(s) for s = mantissa + "E7", on the characters of the model (no sign,
\* no underscore, no inner exponent): the mantissa is digits with at most one
\* point and at least one digit, or float raises ValueError
FloatE7Parses(s) ==
    LET parts == SplitOn(Take(s, Len(s) - 2), ".")
    IN  /\ Len(parts) <= 2
        /\ \A i \in 1..Len(parts) : \A j \in 1..Len(parts[i]) : IsDigit(parts[i][j])
        /\ \E i \in 1..Len(parts) : Len(parts[i]) > 0

\* str(int(float(s))) for such an s: the digits of the mantissa moved seven
\* places, the fraction beyond them cut, no leading zero
FloatE7Str(s) ==
    LET parts == SplitOn(Take(s, Len(s) - 2), ".")
        fraction == IF Len(parts) = 2 THEN parts[2] ELSE <<>>
        digits == LStripChar(parts[1] \o Take(fraction \o <<"0","0","0","0","0","0","0">>, 7), "0")
    IN  IF Len(digits) = 0 THEN <<"0">> ELSE digits

\* _standardize_pubmed(pubmed)
_standardize_pubmed(pubmed) ==
    LET p == Strip(RStripChar(StripChar(Strip(pubmed), "."), "/"))
        hits == { i \in 1..Len(PUBMED_PREFIXES) :
                    /\ StartsWith(p, PUBMED_PREFIXES[i])
                    /\ Len(Split(Strip(RemovePrefix(p, PUBMED_PREFIXES[i])))) > 0 }
    IN  IF IsNumeric(p) THEN [raised |-> FALSE, value |-> Some(p)]
        ELSE IF hits # {}
        THEN LET x == PUBMED_PREFIXES[CHOOSE i \in hits : \A j \in hits : i <= j]
             IN  [raised |-> FALSE, value |-> Some(Split(Strip(RemovePrefix(p, x)))[1])]
        ELSE IF EndsWith(p, <<"E","7">>)
        THEN IF FloatE7Parses(p)
             THEN [raised |-> FALSE, value |-> Some(FloatE7Str(p))]
             ELSE [raised |-> TRUE, value |-> None]
        ELSE [raised |-> FALSE, value |-> None]

\* An external-ids group of a work: the texts of its first external-id-type
\* and external-id-value, and the title of the work
WorkGroup(type, value, title) == [type |-> type, value |-> value, title |-> title]

\* class Work
Work(pubmed) == [pubmed |-> pubmed]

\* _get_works(tree, orcid): the works of the list it returns (the list is the
\* sorted set of the identifiers)
RECURSIVE _get_works(_, _)
_get_works(groups, pmids) ==
    IF Len(groups) = 0
    THEN [raised |-> FALSE, works |-> { Work(pmid) : pmid \in pmids }]
    ELSE
      LET g == Head(groups)
      IN  IF g.type # Some(<<"p","m","i","d">>) \/ ~Truthy(g.value)
          THEN _get_works(Tail(groups), pmids)
          ELSE
            LET value_std == _standardize_pubmed(g.value[1])
            IN  IF value_std.raised THEN [raised |-> TRUE, works |-> {}]
                ELSE IF ~Truthy(value_std.value) \/ ~IsNumeric(value_std.value[1])
                THEN _get_works(Tail(groups), pmids)
                ELSE _get_works(Tail(groups), pmids \cup {value_std.value[1]})

\* The organization grounder handed to _process_file: the terms of its index
ror_grounder ==
    { Term(<<"M","a","s","s","a","c","h","u","s","e","t","t","s"," ","I","n","s","t","i","t","u","t","e"," ","o","f"," ","T","e","c","h","n","o","l","o","g","y">>, <<"0","4","2","n","b","2","s","4","4">>, "name"),
      Term(<<"M","I","T">>, <<"0","4","2","n","b","2","s","4","4">>, "synonym"),
      Term(<<"U","n","i","v","e","r","s","i","t","y"," ","o","f"," ","B","o","n","n">>, <<"0","4","1","n","a","s","3","2","2">>, "name") }

\* RORGrounder.ground(text): a second lookup without "The " and commas when
\* the first finds nothing
RORGrounder_ground(txt) ==
    IF GildaGetMatches(ror_grounder, txt) # {}
    THEN GildaGetMatches(ror_grounder, txt)
    ELSE GildaGetMatches(ror_grounder,
                         Replace(RemovePrefix(txt, <<"T","h","e"," ">>), <<",">>, <<>>))

LOWERCASE_THESE_SOURCES == { <<"R","I","N","G","G","O","L","D">>, <<"G","R","I","D">>, <<"L","E","I">> }

\* A disambiguated-organization element, an organization element, a date
\* element and an affiliation summary (None: the element is absent)
Disambiguated(src, link) == [source |-> src, link |-> link]
Organization(nm, disambiguated) == [name |-> nm, disambiguated |-> disambiguated]
DateElement(year, month, day) == [year |-> year, month |-> month, day |-> day]
Summary(organization, start, end) ==
    [organization |-> organization, start |-> start, end |-> end]

\* _get_disambiguated_organization, its loop.  An unhandled source is noted in
\* UNKNOWN_SOURCES, which only silences the message about it.
RECURSIVE DisambiguatedLoop(_, _)
DisambiguatedLoop(des, references) ==
    IF Len(des) = 0 THEN references
    ELSE
      LET de == Head(des)
          link == Strip(de.link[1])
      IN  IF ~Truthy(de.link) THEN DisambiguatedLoop(Tail(des), references)
          ELSE IF de.source = Some(<<"R","O","R">>)
          THEN DisambiguatedLoop(Tail(des),
                                 Put(references, "ror", RemovePrefix(link, <<"h","t","t","p","s",":","/","/","r","o","r",".","o","r","g","/">>)))
          ELSE IF de.source = Some(<<"R","I","N","G","G","O","L","D">>)
          THEN DisambiguatedLoop(Tail(des), Put(references, "ringgold", link))
          ELSE IF de.source = Some(<<"G","R","I","D">>)
          THEN DisambiguatedLoop(Tail(des), Put(references, "grid", link))
          ELSE IF de.source = Some(<<"L","E","I">>)
          THEN DisambiguatedLoop(Tail(des), Put(references, "lei", link))
          ELSE IF de.source = Some(<<"F","U","N","D","R","E","F">>)
          THEN DisambiguatedLoop(Tail(des),
                                 Put(references, "funderregistry",
                                     RemovePrefix(link, <<"h","t","t","p",":","/","/","d","x",".","d","o","i",".","o","r","g","/","1","0",".","1","3","0","3","9","/">>)))
          ELSE DisambiguatedLoop(Tail(des), references)

\* a mutant of _get_disambiguated_organization that lets the grounder's match
\* replace an embedded ROR code
get_disambiguated_organization_grounder_first(organization, nm) ==
    LET references == DisambiguatedLoop(organization.disambiguated, {})
        match == get_best_match(RORGrounder_ground(nm), nm)
    IN  IF ~IsNone(match)
        THEN Put(references, "ror", match[1].id)
        ELSE references

\* _get_disambiguated_organization(organization_element, name, grounder)
_get_disambiguated_organization(organization, nm) ==
    LET references == DisambiguatedLoop(organization.disambiguated, {})
        match == get_best_match(RORGrounder_ground(nm), nm)
    IN  IF "ror" \notin Keys(references) /\ ~IsNone(match)
        THEN Put(references, "ror", match[1].id)
        ELSE references

\* class Date: year is an int, month and day an int or None; the validation
\* raises for a str that is no number (the empty str is none).  An int is
\* written as its digits without leading zeros.
IntStr(s) == IF Len(LStripChar(s, "0")) = 0 THEN <<"0">> ELSE LStripChar(s, "0")
DateValidates(d) ==
    /\ IsNumeric(d.year[1])
    /\ IsNone(d.month) \/ IsNumeric(d.month[1])
    /\ IsNone(d.day) \/ IsNumeric(d.day[1])
Date(d) ==
    [year |-> IntStr(d.year[1]),
     month |-> IF IsNone(d.month) THEN None ELSE Some(IntStr(d.month[1])),
     day |-> IF IsNone(d.day) THEN None ELSE Some(IntStr(d.day[1]))]

\* _get_date(date_element), for an element that is present
_get_date(d) ==
    IF IsNone(d.year) THEN [raised |-> FALSE, value |-> None]
    ELSE IF DateValidates(d) THEN [raised |-> FALSE, value |-> Some(Date(d))]
    ELSE [raised |-> TRUE, value |-> None]

\* class Affiliation.  The summaries of the model have no role-title, for
\* which _get_role returns None.
Affiliation(nm, xrefs, start, end) ==
    [name |-> nm, xrefs |-> xrefs, start |-> start, end |-> end]

\* _get_affiliations(elements, affiliation_grounder)
RECURSIVE _get_affiliations(_, _)
_get_affiliations(elements, affiliations) ==
    IF Len(elements) = 0 THEN [raised |-> FALSE, value |-> affiliations]
    ELSE
      LET element == Head(elements)
      IN  IF IsNone(element.organization) \/ ~Truthy(element.organization[1].name)
          THEN _get_affiliations(Tail(elements), affiliations)
          ELSE
            LET organization == element.organization[1]
                nm == organization.name[1]
                start == IF IsNone(element.start) THEN [raised |-> FALSE, value |-> None]
                         ELSE _get_date(element.start[1])
                end == IF IsNone(element.end) THEN [raised |-> FALSE, value |-> None]
                       ELSE _get_date(element.end[1])
            IN  IF start.raised \/ end.raised
                THEN [raised |-> TRUE, value |-> affiliations]
                ELSE _get_affiliations(
                       Tail(elements),
                       Append(affiliations,
                              Affiliation(Strip(nm),
                                          _get_disambiguated_organization(organization, nm),
                                          start.value, end.value)))

\* the mappings handed to _process_file: ORCID to Wikidata item, ORCID to
\* Wikimedia Commons image
orcid_to_wikidata == { <<2, <<"Q","4","2">>>> }
orcid_to_wikimedia_commons == { <<2, <<"M","e",".","j","p","g">>>> }
DictGet(d, k) == IF k \in Keys(d) THEN Some((CHOOSE item \in d : item[1] = k)[2]) ELSE None

\* A document: its ORCID (0: no path element), its names and the elements of
\* its other sections.  The documents of the model have no email, keyword,
\* address and locale.
Document(names, employments, educations, memberships, external_identifiers, researcher_urls, works) ==
    [names |-> names, employments |-> employments, educations |-> educations,
     memberships |-> memberships, external_identifiers |-> external_identifiers,
     researcher_urls |-> researcher_urls, works |-> works]

\* Record.is_high_quality(): the test of the memberships is commented out
is_high_quality(record) ==
    /\ Len(record.name) > 0
    /\ \/ \E i \in 1..Len(record.employments) : "ror" \in Keys(record.employments[i].xrefs)
       \/ \E i \in 1..Len(record.educations) : "ror" \in Keys(record.educations[i].xrefs)
       \/ record.works # {}
       \/ record.xrefs # {}

\* a mutant of _process_file that reads the other sections before the names
ProcessFileOutcomesFieldsFirst(document, unmapped) ==
    LET named == _process_file(document.names)
        orcid == document.names.orcid
        employments == _get_affiliations(document.employments, <<>>)
        educations == _get_affiliations(document.educations, <<>>)
        memberships == _get_affiliations(document.memberships, <<>>)
        ids == _get_external_identifiers(document.external_identifiers,
                                         document.researcher_urls, unmapped)
        wikidata_id == DictGet(orcid_to_wikidata, orcid)
        xrefs == IF Truthy(wikidata_id) THEN Put(ids.rv, "wikidata", wikidata_id[1])
                 ELSE ids.rv
        works == _get_works(document.works, {})
        Outcome(raised, record, um) == [raised |-> raised, record |-> record, unmapped |-> um]
    IN  IF employments.raised \/ educations.raised \/ memberships.raised
        THEN { Outcome(TRUE, None, unmapped) }
        ELSE IF ids.raised \/ works.raised
        THEN { Outcome(TRUE, None, ids.unmapped) }
        ELSE IF orcid = 0 \/ named = {} THEN { Outcome(FALSE, None, ids.unmapped) }
        ELSE { Outcome(FALSE,
                       Some([orcid |-> orcid, name |-> n.name, aliases |-> n.aliases,
                             employments |-> employments.value,
                             educations |-> educations.value,
                             memberships |-> memberships.value,
                             xrefs |-> xrefs, homepage |-> ids.homepage,
                             commons_image |-> DictGet(orcid_to_wikimedia_commons, orcid),
                             works |-> works.works]),
                       ids.unmapped) : n \in named }

\* _process_file(file, ror_grounder, orcid_to_wikidata,
\* orcid_to_wikimedia_commons) for a document that parses: the set of its
\* possible outcomes.  An outcome is an exception (raised), None or a record,
\* with the set UNMAPPED_EXTERNAL_ID as the call leaves it.
ProcessFileOutcomes(document, unmapped) ==
    LET named == _process_file(document.names)
        orcid == document.names.orcid
        employments == _get_affiliations(document.employments, <<>>)
        educations == _get_affiliations(document.educations, <<>>)
        memberships == _get_affiliations(document.memberships, <<>>)
        ids == _get_external_identifiers(document.external_identifiers,
                                         document.researcher_urls, unmapped)
        wikidata_id == DictGet(orcid_to_wikidata, orcid)
        xrefs == IF Truthy(wikidata_id) THEN Put(ids.rv, "wikidata", wikidata_id[1])
                 ELSE ids.rv
        works == _get_works(document.works, {})
        Outcome(raised, record, um) == [raised |-> raised, record |-> record, unmapped |-> um]
    IN  IF orcid = 0 \/ named = {} THEN { Outcome(FALSE, None, unmapped) }
        ELSE IF employments.raised \/ educations.raised \/ memberships.raised
        THEN { Outcome(TRUE, None, unmapped) }
        ELSE IF ids.raised \/ works.raised
        THEN { Outcome(TRUE, None, ids.unmapped) }
        ELSE { Outcome(FALSE,
                       Some([orcid |-> orcid, name |-> n.name, aliases |-> n.aliases,
                             employments |-> employments.value,
                             educations |-> educations.value,
                             memberships |-> memberships.value,
                             xrefs |-> xrefs, homepage |-> ids.homepage,
                             commons_image |-> DictGet(orcid_to_wikimedia_commons, orcid),
                             works |-> works.works]),
                       ids.unmapped) : n \in named }

---------------------------------------------------------------------------
(* Extraction: _process_file applied to a stream of documents, as the loop  *)
(* of iter_records applies it                                                *)

\* the documents of the streams (NoSection: a section without elements;
\* JaneDoe: the names of a person with a credit name alone)
ExtractDocs ==
    LET NoSection == <<>>
        JaneDoe(orcid) == Doc(orcid, Some(<<"J","a","n","e"," ","D","o","e">>), None, None, <<>>)
        Pmid(value) == << WorkGroup(Some(<<"p","m","i","d">>), Some(value), <<"A"," ","r","e","v","i","e","w">>) >>
        Employed(disambiguated, year) ==
            << Summary(Some(Organization(Some(<<"U","n","i","v","e","r","s","i","t","y"," ","o","f"," ","B","o","n","n">>), disambiguated)),
                       Some(DateElement(year, None, None)), None) >>
        EmbeddedRor == << Disambiguated(Some(<<"R","O","R">>), Some(<<"h","t","t","p","s",":","/","/","r","o","r",".","o","r","g","/","0","4","2","n","b","2","s","4","4">>)) >>
    IN
    { \* names only
      Document(Doc(1, Some(<<"D","r","."," ","J","a","n","e"," ","D","o","e">>), Some(<<"J","a","n","e">>), Some(<<"D","o","e">>), <<>>),
               NoSection, NoSection, NoSection, NoSection, NoSection, NoSection),
      Document(Doc(1, Some(<<"D","r",".">>), None, None, << <<"J","a","n","e"," ","D","o","e",";"," ","J","a","d","e"," ","D","o","e">> >>),
               NoSection, NoSection, NoSection, NoSection, NoSection, NoSection),
      \* no usable name (and fields that would raise)
      Document(Doc(1, None, None, None, <<>>),
               Employed(<<>>, Some(<<>>)), NoSection, NoSection,
               << ExternalId(None, Some(<<"x">>)) >>, NoSection, Pmid(<<"f","o","o","E","7">>)),
      Document(Doc(1, Some(<<" "," ">>), None, Some(<<"D","o","e">>), <<>>),
               NoSection, NoSection, NoSection, NoSection, NoSection, NoSection),
      \* no ORCID
      Document(JaneDoe(0),
               NoSection, NoSection, NoSection, NoSection, NoSection, NoSection),
      \* works
      Document(JaneDoe(1), NoSection, NoSection, NoSection, NoSection, NoSection,
               Pmid(<<"P","M","I","D",":"," ","3","6","1","5","1","7","4","0">>)),
      Document(JaneDoe(1), NoSection, NoSection, NoSection, NoSection, NoSection,
               Pmid(<<"s","o","m","e"," ","f","r","e","e"," ","t","e","x","t">>)),
      Document(JaneDoe(1), NoSection, NoSection, NoSection, NoSection, NoSection,
               Pmid(<<"P","M","I","D",":"," ","3","6","1","5","1","7","4","0"," ","a","n","d"," ","m","o","r","e">>)),
      Document(JaneDoe(1), NoSection, NoSection, NoSection, NoSection, NoSection,
               Pmid(<<"1",".","2","E","7">>)),
      Document(JaneDoe(1), NoSection, NoSection, NoSection, NoSection, NoSection,
               Pmid(<<"f","o","o","E","7">>)),
      Document(JaneDoe(1), NoSection, NoSection, NoSection, NoSection, NoSection,
               << WorkGroup(Some(<<"d","o","i">>), Some(<<"1","0",".","1","/","x">>), <<"A"," ","r","e","v","i","e","w">>) >>),
      \* external identifiers and researcher URLs
      Document(JaneDoe(1), NoSection, NoSection, NoSection,
               << ExternalId(Some(<<"O","R","C","I","D">>), Some(<<"0","0","0","0","-","0","0","0","1">>)),
                  ExternalId(Some(<<"M","y","s","t","e","r","y"," ","I","D">>), Some(<<"m","1">>)),
                  ExternalId(Some(<<"S","c","o","p","u","s"," ","A","u","t","h","o","r"," ","I","D",":">>), Some(<<"7","0","0","4">>)) >>,
               NoSection, NoSection),
      Document(JaneDoe(1), NoSection, NoSection, NoSection,
               << ExternalId(Some(<<"O","R","C","I","D"," ","i","d">>), Some(<<"0","0","0","0","-","0","0","0","1">>)),
                  ExternalId(Some(<<"M","y","s","t","e","r","y"," ","I","D">>), Some(<<"m","1">>)) >>,
               NoSection, NoSection),
      Document(JaneDoe(1), NoSection, NoSection, NoSection,
               << ExternalId(Some(<<"M","y","s","t","e","r","y"," ","I","D">>), Some(<<"m","1">>)),
                  ExternalId(None, Some(<<"x">>)) >>,
               NoSection, NoSection),
      Document(JaneDoe(1), NoSection, NoSection, NoSection,
               << ExternalId(None, None) >>,
               << ResearcherUrl(Some(<<"H","o","m","e"," ","P","a","g","e">>), <<"h","t","t","p","s",":","/","/","j","a","n","e",".","e","x","a","m","p","l","e","/">>),
                  ResearcherUrl(Some(<<"c","o","d","e">>), <<"h","t","t","p","s",":","/","/","g","i","t","h","u","b",".","c","o","m","/","j","a","n","e","?","t","a","b","=","r","e","p","o","s","i","t","o","r","i","e","s">>),
                  ResearcherUrl(None, <<"h","t","t","p","s",":","/","/","t","w","i","t","t","e","r",".","c","o","m","/","j","a","n","e">>),
                  ResearcherUrl(Some(<<"O","R","C","I","D">>), <<"h","t","t","p","s",":","/","/","o","r","c","i","d",".","o","r","g","/","0","0","0","0","-","0","0","0","1">>) >>,
               NoSection),
      \* other names: a title before one token, a single token
      Document(Doc(2, Some(<<"J","a","n","e"," ","D","o","e">>), None, None, << <<"D","r","."," ","S","m","i","t","h",";"," ","M","a","d","o","n","n","a">> >>),
               NoSection, NoSection, NoSection, NoSection, NoSection, NoSection),
      \* affiliations
      Document(JaneDoe(1), Employed(EmbeddedRor, Some(<<"2","0","2","0">>)),
               NoSection, NoSection, NoSection, NoSection, NoSection),
      Document(JaneDoe(1), Employed(<<>>, None),
               NoSection, NoSection, NoSection, NoSection, NoSection),
      Document(JaneDoe(1), Employed(<<>>, Some(<<>>)),
               NoSection, NoSection, NoSection, NoSection, NoSection),
      Document(JaneDoe(1), NoSection,
               << Summary(Some(Organization(Some(<<"T","h","e"," ","U","n","i","v","e","r","s","i","t","y"," ","o","f"," ","B","o","n","n">>), <<>>)),
                          None, None) >>,
               NoSection, NoSection, NoSection, NoSection),
      Document(JaneDoe(1), NoSection, NoSection, Employed(EmbeddedRor, Some(<<"2","0","2","0">>)),
               NoSection, NoSection, NoSection) }

\* a stream holds at most MaxDocs documents
MaxDocs == 2
\* the documents are extracted in at most MaxProcesses interpreters
MaxProcesses == 2

InitExtract ==
    /\ docs \in UNION { [1..n -> ExtractDocs] : n \in 1..MaxDocs }
    /\ epos = 0
    /\ results = <<>>
    /\ process = 1
    /\ records_hq = <<>>
    /\ epc = "running"
    /\ UNMAPPED_EXTERNAL_ID = {}
    /\ NamesIdle
    /\ GroundIdle
    /\ IngestIdle
    /\ ReconcileIdle
    /\ RunIdle

\* what the interpreter gave before for the same document: the order in which
\* a set of str is iterated is fixed within one interpreter
SeenHere(document) ==
    { results[i].record : i \in { j \in 1..Len(results) :
                                    /\ results[j].process = process
                                    /\ docs[j] = document } }

\* record = f(file) returns: a record is written to the partitions and
\* yielded, None is passed over (iter_records, lines 448-457)
ProcessDocument ==
    /\ epc = "running"
    /\ epos < Len(docs)
    /\ \E o \in ProcessFileOutcomes(docs[epos + 1], UNMAPPED_EXTERNAL_ID) :
         /\ ~o.raised
         /\ SeenHere(docs[epos + 1]) \subseteq {o.record}
         /\ results' = Append(results, [process |-> process, record |-> o.record])
         /\ records_hq' = IF ~IsNone(o.record) /\ is_high_quality(o.record[1])
                          THEN Append(records_hq, o.record[1]) ELSE records_hq
         /\ UNMAPPED_EXTERNAL_ID' = o.unmapped
    /\ epos' = epos + 1
    /\ UNCHANGED <<docs, process, epc, notExtract>>

\* record = f(file) raises: nothing catches the exception
ProcessDocumentRaises ==
    /\ epc = "running"
    /\ epos < Len(docs)
    /\ \E o \in ProcessFileOutcomes(docs[epos + 1], UNMAPPED_EXTERNAL_ID) :
         /\ o.raised
         /\ UNMAPPED_EXTERNAL_ID' = o.unmapped
    /\ epc' = "raised"
    /\ UNCHANGED <<docs, epos, results, process, records_hq, notExtract>>

\* the documents are exhausted
DocumentsExhausted ==
    /\ epc = "running"
    /\ epos = Len(docs)
    /\ epc' = "done"
    /\ UNCHANGED <<docs, epos, results, process, records_hq, UNMAPPED_EXTERNAL_ID, notExtract>>

\* the documents that follow are extracted in another interpreter (a later
\* run, a worker): its module-level collections are empty and its hash seed
\* is its own
NextProcess ==
    /\ epc = "running"
    /\ process < MaxProcesses
    /\ process' = process + 1
    /\ UNMAPPED_EXTERNAL_ID' = {}
    /\ UNCHANGED <<docs, epos, results, records_hq, epc, notExtract>>

NextExtract ==
    \/ ProcessDocument
    \/ ProcessDocumentRaises
    \/ DocumentsExhausted
    \/ NextProcess

SpecExtract == InitExtract /\ [][NextExtract]_vars

---------------------------------------------------------------------------
(* Reconcile: reconcile_aliases applied to bounded arguments                *)

\* the names handed to reconcile_aliases: None, the empty str, one letter,
\* two letters, a full name
ReconcileNames == { None, Some(<<>>), Some(<<"C">>), Some(<<"A","l">>), Some(<<"J","a","n","e"," ","D","o","e">>) }

\* the strings the alias sets are made of
AliasPool == { <<>>, <<"C">>, <<"D","o","e">>, <<"J","a","n","e"," ","D","o","e">>, <<"J","a","d","e"," ","D","o","e">> }

\* an alias set holds at most MaxAliases strings
MaxAliases == 3

InitReconcile ==
    /\ rin \in { <<nm, als>> : nm \in ReconcileNames,
                               als \in { x \in SUBSET AliasPool : Cardinality(x) <= MaxAliases } }
    /\ rout = <<>>
    /\ NamesIdle
    /\ GroundIdle
    /\ IngestIdle
    /\ ExtractIdle
    /\ RunIdle

\* name, aliases = reconcile_aliases(name, aliases)
ReconcileAliases ==
    /\ rin # <<>>
    /\ rout = <<>>
    /\ \E r \in reconcile_aliases(rin[1], rin[2]) : rout' = r
    /\ UNCHANGED <<rin, notReconcile>>

NextReconcile ==
    \/ ReconcileAliases

SpecReconcile == InitReconcile /\ [][NextReconcile]_vars

\* C20: when the name is absent or not longer than the minimum length and an
\* alias longer than the minimum exists, the returned name is an alias of
\* maximal length and it is not among the returned aliases; a usable name is
\* returned unchanged; the returned name is never empty or too short; it is
\* None only when neither the name nor any alias is usable.
C20_ReconcilePromotesLongest ==
    rout # <<>> =>
        LET nm == rin[1]
            usable == { a \in rin[2] : Len(a) > minimum_name_length }
            name_usable == ~IsNone(nm) /\ Len(nm[1]) > minimum_name_length
        IN  /\ (~name_usable /\ usable # {})
                 => /\ ~IsNone(rout[1])
                    /\ rout[1][1] \in usable
                    /\ \A a \in rin[2] : Len(a) <= Len(rout[1][1])
                    /\ rout[1][1] \notin rout[2]
                    /\ rout[2] = usable \ { rout[1][1] }
            /\ name_usable => rout[1] = nm
            /\ ~IsNone(rout[1]) => Len(rout[1][1]) > minimum_name_length
            /\ IsNone(rout[1]) <=> (~name_usable /\ usable = {})

\* a too short name is replaced by one of two aliases of the same, maximal length
C20_Witness ==
    /\ rout # <<>>
    /\ rin[1] = Some(<<"C">>)
    /\ { <<"J","a","n","e"," ","D","o","e">>, <<"J","a","d","e"," ","D","o","e">> } \subseteq rin[2]
    /\ rout[1] = Some(<<"J","a","d","e"," ","D","o","e">>)
    /\ rout[2] = rin[2] \ { <<"J","a","d","e"," ","D","o","e">>, <<>>, <<"C">> }

---------------------------------------------------------------------------
(* Rebuild: write_lexical_sqlite run after run, over whatever table the     *)
(* database file held                                                       *)

\* rows a database file of an earlier release holds
StaleTerms == { Term(<<"O","l","d"," ","N","a","m","e">>, 1, "name"), Term(<<"J","a","n","e"," ","D","o","e">>, 9, "name"),
                Term(<<"J"," ","D","o","e">>, 9, "synonym") }

InitRebuild ==
    /\ records \in UNION { RecordStreams(n) : n \in 1..MaxRecords }
    /\ terms \in { {}, StaleTerms }
    /\ builds = <<>>
    /\ gpc = "records"
    /\ text = <<>>
    /\ lookups = <<>>
    /\ matches = {}
    /\ answer = None
    /\ NamesIdle
    /\ IngestIdle
    /\ ExtractIdle
    /\ ReconcileIdle
    /\ RunIdle

\* the record stream of a later release
LaterRelease ==
    { << r >> : r \in _process_file(Doc(1, Some(<<"J","a","n","e"," ","Q","."," ","P","u","b","l","i","c">>), None, None, <<>>)) }

\* the command line is run again (cli.py, main): the record stream is the same
\* or that of a later release
NextRun ==
    /\ gpc = "built"
    /\ Len(builds) < MaxBuilds
    /\ records' \in {records} \cup LaterRelease
    /\ gpc' = "records"
    /\ UNCHANGED <<terms, builds, text, lookups, matches, answer, notGround>>

NextRebuild ==
    \/ write_lexical_sqlite
    \/ NextRun

SpecRebuild == InitRebuild /\ [][NextRebuild]_vars

\* C19: after write_lexical_sqlite the table holds exactly the rows of the
\* current record stream, whatever it held before, so that two builds from
\* the same stream give the same rows.  (The records of a stream have
\* different ORCIDs and a record gives each text once, so no row repeats and
\* the set of the rows is their multiset.)
C19_RebuildIsWholesale ==
    gpc = "built" => terms = LexicalRows(records)

\* a second build over a table that held the rows of another stream
C19_Witness ==
    /\ gpc = "built"
    /\ Len(builds) = 2
    /\ builds[1] = StaleTerms
    /\ builds[2] # {}
    /\ builds[2] # terms
    /\ terms # {}

---------------------------------------------------------------------------
(* Extraction: the claims                                                   *)

\* the documents that gave a record, and the record of each
Extracted == { i \in 1..Len(results) : ~IsNone(results[i].record) }
Rec(i) == results[i].record[1]

\* C11: _process_file never raises for a document that parses, whatever the
\* text of its fields.  Stated as in the claim; it raises for a PubMed value
\* that ends in E7 and is no number, for an external identifier without a
\* type, and for a date whose year is empty.
C11_ProcessFileNeverRaises ==
    epc # "raised"

\* what is left of a bibliographic value after its surrounding whitespace and
\* at most one known prefix are stripped
Remainders(value) ==
    {Strip(value)}
      \cup { Strip(RemovePrefix(Strip(value), PUBMED_PREFIXES[j])) :
               j \in { k \in 1..Len(PUBMED_PREFIXES) :
                         StartsWith(Strip(value), PUBMED_PREFIXES[k]) } }

\* C12: every work stored comes from a PubMed value whose remainder, after
\* whitespace and one known prefix are stripped, is numeric as a whole, and the
\* identifier stored is that remainder.  Stated as in the claim; the code keeps
\* the first token after the prefix and drops the text that follows it, and
\* turns a value such as 1.2E7 into a number.
C12_WorkIsWholeNumericRemainder ==
    \A i \in Extracted : \A w \in Rec(i).works :
        \E k \in 1..Len(docs[i].works) :
            /\ docs[i].works[k].type = Some(<<"p","m","i","d">>)
            /\ Truthy(docs[i].works[k].value)
            /\ IsNumeric(w.pubmed)
            /\ w.pubmed \in Remainders(docs[i].works[k].value[1])

\* C13: every work of a record carries the title of the work in the document
\* besides its PubMed identifier.  Stated as in the claim; class Work has the
\* field pubmed only.
C13_WorkCarriesTitle ==
    \A i \in Extracted : \A w \in Rec(i).works :
        /\ "pubmed" \in DOMAIN w
        /\ "title" \in DOMAIN w
        /\ \E k \in 1..Len(docs[i].works) : docs[i].works[k].title = w.title

\* an affiliation with a resolved organization
Resolved(affiliations) ==
    \E k \in 1..Len(affiliations) : "ror" \in Keys(affiliations[k].xrefs)

\* C14: a record is in the high-quality partition exactly when it has an
\* external ref, an affiliation of any kind with a resolved organization, or a
\* work; and the high-quality partition is part of the complete one.  Stated
\* as in the claim; a resolved membership does not count in the code.
C14_HighQualityPartition ==
    /\ \A i \in Extracted :
         Rec(i) \in Range(records_hq)
           <=> \/ Rec(i).xrefs # {}
               \/ Resolved(Rec(i).employments)
               \/ Resolved(Rec(i).educations)
               \/ Resolved(Rec(i).memberships)
               \/ Rec(i).works # {}
    /\ Range(records_hq) \subseteq { Rec(i) : i \in Extracted }

\* C15: the same document gives the same result, whatever was extracted
\* before it and whatever interpreter extracts it.  Stated as in the claim;
\* which of two aliases of the same maximal length is promoted depends on the
\* order in which the interpreter iterates a set of str.
C15_ExtractionIsDeterministic ==
    \A i, j \in 1..Len(results) :
        docs[i] = docs[j] => results[i].record = results[j].record

\* C16: the name of a record is not among its aliases; credit name
\* "Dr. Jane Doe" with given "Jane" and family "Doe" gives the name "Jane Doe"
\* and no alias.
C16_NameNotAmongAliases ==
    \A i \in Extracted :
        /\ Rec(i).name \notin Rec(i).aliases
        /\ docs[i].names = Doc(1, Some(<<"D","r","."," ","J","a","n","e"," ","D","o","e">>), Some(<<"J","a","n","e">>), Some(<<"D","o","e">>), <<>>)
             => Rec(i).name = <<"J","a","n","e"," ","D","o","e">> /\ Rec(i).aliases = {}

C16_Witness ==
    \E i \in Extracted :
        /\ docs[i].names.credit_name = Some(<<"D","r","."," ","J","a","n","e"," ","D","o","e">>)
        /\ docs[i].names.given_names = Some(<<"J","a","n","e">>)
        /\ Rec(i).name = <<"J","a","n","e"," ","D","o","e">>
        /\ Rec(i).aliases = {}

\* the targets of the allow table, and the keys the second loop of
\* _get_external_identifiers and the Wikidata mapping store under
AllowTargets == { item[2] : item \in ExternalIdMappingItems }
UrlPatternKeys ==
    { "github", "wikidata", "linkedin", "google.scholar", "publons.researcher",
      "researchgate.profile", "scopus", "wos.researcher", "lattes", "dialnet.author",
      "ssrn.author", "osf", "viaf", "ieee.author", "loop", "dblp.author",
      "dockerhub.user", "mastodon" }

\* the keys a document's researcher URLs and the Wikidata mapping give
UrlKeysOf(document) ==
    Keys(ResearcherUrlLoop(document.researcher_urls, {}, None).rv)
      \cup (IF Truthy(DictGet(orcid_to_wikidata, document.names.orcid))
            THEN {"wikidata"} ELSE {})

\* C17: every key of a record's xrefs is a target of the allow table or a key
\* of the URL patterns; a key that is not from a URL comes from an external
\* identifier whose normalized type is in the allow table and not in the deny
\* table; the key of the ORCID type never appears.
C17_XrefKeysFromTables ==
    \A i \in Extracted :
        /\ Keys(Rec(i).xrefs) \subseteq AllowTargets \cup UrlPatternKeys
        /\ "orcid" \notin Keys(Rec(i).xrefs)
        /\ \A item \in Rec(i).xrefs :
             item[1] \notin UrlKeysOf(docs[i])
               => \E k \in 1..Len(docs[i].external_identifiers) :
                    LET e == docs[i].external_identifiers[k]
                    IN  /\ Truthy(e.value) /\ ~IsNone(e.type)
                        /\ e.value[1] = item[2]
                        /\ _norm_key(e.type[1]) \notin EXTERNAL_ID_SKIP
                        /\ _norm_key(e.type[1]) \in DOMAIN EXTERNAL_ID_MAPPING
                        /\ EXTERNAL_ID_MAPPING[_norm_key(e.type[1])] = item[1]

\* a document with an ORCID-typed, an unknown and a Scopus identifier gives
\* the Scopus ref alone
C17_Witness ==
    \E i \in Extracted :
        /\ \E k \in 1..Len(docs[i].external_identifiers) :
             docs[i].external_identifiers[k].type = Some(<<"O","R","C","I","D">>)
        /\ \E k \in 1..Len(docs[i].external_identifiers) :
             docs[i].external_identifiers[k].type = Some(<<"M","y","s","t","e","r","y"," ","I","D">>)
        /\ Rec(i).xrefs = { <<"scopus", <<"7","0","0","4">>>> }

\* a document without a credit name and without both a family and a given name
Nameless(document) ==
    /\ ~Truthy(document.names.credit_name)
    /\ ~(Truthy(document.names.family_name) /\ Truthy(document.names.given_names))

\* C18: a document without a usable name gives None and no exception, and
\* the documents after it are processed.
C18_NamelessGivesNone ==
    /\ \A i \in 1..Len(results) : Nameless(docs[i]) => IsNone(results[i].record)
    /\ epc = "raised" => ~Nameless(docs[epos + 1])
    /\ (epc = "done" /\ \A i \in 1..Len(docs) : Nameless(docs[i]))
         => Len(results) = Len(docs)

\* None for a nameless document, then the record of the next document
C18_Witness ==
    /\ Len(results) = 2
    /\ Nameless(docs[1])
    /\ IsNone(results[1].record)
    /\ ~IsNone(results[2].record)


\* C25: an alias that comes from an other-name field contains whitespace and
\* is shorter than the maximum length; a candidate without whitespace, or of
\* the maximum length or longer, is no alias.  Stated as in the claim; the
\* tests are made on the candidate before clean_name, which can take the
\* whitespace away with a title.
C25_OtherNameAliasesHaveWhitespace ==
    \A i \in Extracted :
        LET others == docs[i].names.other_names
            candidates == UNION { { Strip(z) : z \in Range(SplitOn(Strip(others[k]), ";")) } :
                                  k \in 1..Len(others) }
        IN  /\ \A a \in Rec(i).aliases \cap _iter_other_names(others) :
                 Contains(a, " ") /\ Len(a) < MaxOtherNameLength
            /\ \A z \in candidates :
                 (~Contains(z, " ") \/ Len(z) >= MaxOtherNameLength)
                   => z \notin Rec(i).aliases

\* the ROR codes an organization element embeds, in the order of the elements
EmbeddedRorCodes(organization) ==
    LET des == organization.disambiguated
        at == { k \in 1..Len(des) : Truthy(des[k].link) /\ des[k].source = Some(<<"R","O","R">>) }
    IN  { RemovePrefix(Strip(des[k].link[1]), <<"h","t","t","p","s",":","/","/","r","o","r",".","o","r","g","/">>) :
            k \in { j \in at : \A m \in at : m <= j } }

C28_UnmappedKeysAreCounted ==
    (process = 1 /\ epc # "raised") =>
        LET seen == { <<j, k>> \in (1..epos) \X (1..3) :
                        /\ ~IsNone(results[j].record)
                        /\ k <= Len(docs[j].external_identifiers)
                        /\ Truthy(docs[j].external_identifiers[k].value)
                        /\ ~IsNone(docs[j].external_identifiers[k].type)
                        /\ _norm_key(docs[j].external_identifiers[k].type[1])
                             \notin EXTERNAL_ID_SKIP
                        /\ _norm_key(docs[j].external_identifiers[k].type[1])
                             \notin DOMAIN EXTERNAL_ID_MAPPING }
            keys == { docs[p[1]].external_identifiers[p[2]].type[1] : p \in seen }
            occurrences(key) ==
                Cardinality({ p \in seen : docs[p[1]].external_identifiers[p[2]].type[1] = key })
        IN  /\ UNMAPPED_EXTERNAL_ID \subseteq keys
            /\ \A key \in keys :
                 occurrences(key) = (IF key \in UNMAPPED_EXTERNAL_ID THEN 1 ELSE 0)
---------------------------------------------------------------------------
(* The run of the command line: the term files, the summaries, main         *)

\* the documents the records of a run are extracted from
RunDocs(orcid) ==
    LET NoSection == <<>>
        Names(credit, others) == Doc(orcid, Some(credit), None, None, others)
        At(nm, disambiguated) == << Summary(Some(Organization(Some(nm), disambiguated)), None, None) >>
        Ror == << Disambiguated(Some(<<"R","O","R">>), Some(<<"h","t","t","p","s",":","/","/","r","o","r",".","o","r","g","/","0","4","2","n","b","2","s","4","4">>)) >>
    IN
    { \* a name with aliases, employed at an organization with a ROR code
      Document(Names(<<"J","a","n","e"," ","D","o","e">>, << <<"J","a","n","e"," ","Q"," ","D","o","e",";"," ","J"," ","D","o","e">> >>),
               At(<<"A","c","m","e">>, Ror), NoSection, NoSection, NoSection, NoSection, NoSection),
      \* a name that cleans to whitespace
      Document(Names(<<"/"," "," ","/">>, << <<"J","a","n","e"," ","D","o","e">> >>),
               NoSection, NoSection, NoSection, NoSection, NoSection, NoSection),
      \* an alias that cleans to whitespace
      Document(Names(<<"J","a","n","e"," ","D","o","e">>, << <<"/"," "," ","/",";"," ","J","a","d","e"," ","D","o","e">> >>),
               NoSection, NoSection, NoSection, NoSection, NoSection, NoSection),
      \* memberships alone, with and without a ROR code
      Document(Names(<<"J","a","n","e"," ","D","o","e">>, <<>>),
               NoSection, NoSection, At(<<"G","u","i","l","d">>, Ror), NoSection, NoSection, NoSection),
      Document(Names(<<"J","a","n","e"," ","D","o","e">>, <<>>),
               NoSection, NoSection, At(<<"C","l","u","b">>, <<>>), NoSection, NoSection, NoSection),
      \* an employment and a membership of which one has a ROR code
      Document(Names(<<"J","a","n","e"," ","D","o","e">>, <<>>),
               At(<<"A","c","m","e">>, <<>>), NoSection, At(<<"G","u","i","l","d">>, Ror), NoSection, NoSection, NoSection),
      Document(Names(<<"J","a","n","e"," ","D","o","e">>, <<>>),
               At(<<"A","c","m","e">>, Ror), NoSection, At(<<"C","l","u","b">>, <<>>), NoSection, NoSection, NoSection),
      \* an education without a ROR code
      Document(Names(<<"J","a","n","e"," ","D","o","e">>, <<>>),
               NoSection, At(<<"S","c","h","o","o","l">>, <<>>), NoSection, NoSection, NoSection, NoSection) }

\* the record streams of n records: record i is extracted from a document
\* whose ORCID is i
RECURSIVE RunStreams(_)
RunStreams(n) ==
    IF n = 0 THEN { <<>> }
    ELSE { Append(rs, o.record[1]) :
             rs \in RunStreams(n - 1),
             o \in { x \in UNION { ProcessFileOutcomes(d, {}) : d \in RunDocs(n) } :
                       ~x.raised /\ ~IsNone(x.record) } }

\* write_lexical: the rows of orcid.lq.ssslm.tsv.gz and of orcid.ssslm.tsv.gz
SsslmRows(rs, hq) ==
    UNION { _record_to_literal_mappings(rs[i]) :
            i \in { j \in 1..Len(rs) : /\ Len(rs[j].name) > 0
                                        /\ hq => is_high_quality(rs[j]) } }

InitLexical ==
    /\ records \in UNION { RunStreams(n) : n \in 1..MaxRecords }
    /\ terms \in { {}, StaleTerms }
    /\ builds = <<>>
    /\ gpc = "records"
    /\ text = <<>>
    /\ lookups = <<>>
    /\ matches = {}
    /\ answer = None
    /\ RunIdle
    /\ NamesIdle
    /\ IngestIdle
    /\ ExtractIdle
    /\ ReconcileIdle

write_lexical ==
    /\ gpc \in {"records", "built"}
    /\ ssslm = <<>>
    /\ ssslm' = [lq |-> SsslmRows(records, FALSE), hq |-> SsslmRows(records, TRUE)]
    /\ UNCHANGED <<groundVars, affiliation_no_ror, employment, spos, steps, mpc, notRun>>

NextLexical ==
    \/ write_lexical
    \/ write_lexical_sqlite

SpecLexical == InitLexical /\ [][NextLexical]_vars


---------------------------------------------------------------------------
(* write_summaries (api.py): the counter of organization names without ROR *)

\* affiliation_no_ror[k] += 1 on a Counter
Increment(counter, k) ==
    Put(counter, k, (IF k \in Keys(counter) THEN DictGet(counter, k)[1] ELSE 0) + 1)

\* lines 1032-1052: the loops over educations and over employments count the
\* name of each affiliation whose own ror is None
RECURSIVE CountNoRor(_, _)
CountNoRor(affiliations, counter) ==
    IF Len(affiliations) = 0 THEN counter
    ELSE CountNoRor(Tail(affiliations),
                    IF "ror" \notin Keys(Head(affiliations).xrefs)
                    THEN Increment(counter, Head(affiliations).name)
                    ELSE counter)

\* lines 1054-1059: the loop over memberships counts the name of each
\* membership when employment.ror is None, employment being the variable the
\* loop over employments last bound
RECURSIVE CountMemberships(_, _, _)
CountMemberships(memberships, bound, counter) ==
    IF Len(memberships) = 0 THEN counter
    ELSE CountMemberships(Tail(memberships), bound,
                          IF "ror" \notin Keys(bound.xrefs)
                          THEN Increment(counter, Head(memberships).name)
                          ELSE counter)

\* the body of the loop of write_summaries for one record: bound is the
\* variable employment before it (<<>> while unbound).  Reading an unbound
\* employment raises UnboundLocalError.
SummarizeRecord(record, bound, counter) ==
    LET last == IF Len(record.employments) > 0
                THEN << record.employments[Len(record.employments)] >>
                ELSE bound
        counted == CountNoRor(record.employments, CountNoRor(record.educations, counter))
    IN  IF Len(record.memberships) > 0 /\ last = <<>>
        THEN [raised |-> TRUE, employment |-> last, counter |-> counted]
        ELSE [raised |-> FALSE, employment |-> last,
              counter |-> IF Len(record.memberships) = 0 THEN counted
                          ELSE CountMemberships(record.memberships, last[1], counted)]

\* write_summaries over a whole stream, from record i on
RECURSIVE SummarizeFrom(_, _, _, _)
SummarizeFrom(rs, i, bound, counter) ==
    IF i > Len(rs) THEN [raised |-> FALSE, employment |-> bound, counter |-> counter]
    ELSE LET one == SummarizeRecord(rs[i], bound, counter)
         IN  IF one.raised THEN one
             ELSE SummarizeFrom(rs, i + 1, one.employment, one.counter)

InitSummaries ==
    /\ records \in UNION { RunStreams(n) : n \in 1..MaxRecords }
    /\ terms = {} /\ builds = <<>> /\ gpc = "records" /\ text = <<>>
    /\ lookups = <<>> /\ matches = {} /\ answer = <<>>
    /\ ssslm = <<>> /\ steps = <<>>
    /\ affiliation_no_ror = {}
    /\ employment = <<>>
    /\ spos = 0
    /\ mpc = "summaries"
    /\ NamesIdle /\ IngestIdle /\ ExtractIdle /\ ReconcileIdle

\* one pass of the loop over iter_records
WriteSummariesRecord ==
    /\ mpc = "summaries"
    /\ spos < Len(records)
    /\ LET one == SummarizeRecord(records[spos + 1], employment, affiliation_no_ror)
       IN  /\ ~one.raised
           /\ affiliation_no_ror' = one.counter
           /\ employment' = one.employment
    /\ spos' = spos + 1
    /\ UNCHANGED <<groundVars, ssslm, steps, mpc, notRun>>

\* a pass that reads the unbound employment
WriteSummariesRaises ==
    /\ mpc = "summaries"
    /\ spos < Len(records)
    /\ LET one == SummarizeRecord(records[spos + 1], employment, affiliation_no_ror)
       IN  /\ one.raised
           /\ affiliation_no_ror' = one.counter
           /\ employment' = one.employment
    /\ mpc' = "raised"
    /\ UNCHANGED <<groundVars, ssslm, steps, spos, notRun>>

\* the stream is exhausted: the summary files are written
WriteSummariesReturns ==
    /\ mpc = "summaries"
    /\ spos = Len(records)
    /\ mpc' = "summarized"
    /\ UNCHANGED <<groundVars, ssslm, affiliation_no_ror, employment, spos, steps, notRun>>

NextSummaries ==
    \/ WriteSummariesRecord
    \/ WriteSummariesRaises
    \/ WriteSummariesReturns

SpecSummaries == InitSummaries /\ [][NextSummaries]_vars

---------------------------------------------------------------------------
(* main (cli.py): the steps of a run, in order                              *)

\* api.py lines 384-391: the keyword-only parameters of iter_records
iter_records_parameters == { "force", "records_path", "desc", "head", "version_info" }

\* the keywords each step of main hands to iter_records (api.py line 1006,
\* sqldb.py line 92, owl.py lines 142-147, lexical.py lines 150 and 120);
\* write_schema and ground_researcher do not call it
iter_records_keywords(step) ==
    IF step = "iter_records" THEN { "force", "version_info", "head" }
    ELSE IF step = "write_owl_rdf" THEN { "desc", "version_info", "force", "ror_grounder" }
    ELSE IF step \in { "write_summaries", "write_sqlite", "write_lexical", "write_lexical_sqlite" }
    THEN { "desc", "version_info", "force" }
    ELSE {}

\* cli.py lines 44-62: the calls of main after the choice of the version
MainSteps ==
    << "write_schema", "write_summaries", "write_sqlite", "write_owl_rdf",
       "write_lexical", "write_lexical_sqlite", "ground_researcher" >>

\* the steps of MainSteps that have completed
Completed == SelectSeq(steps, LAMBDA s : s # "iter_records")

\* a step raises when it hands iter_records a keyword it does not have
\* (TypeError), and write_summaries when its loop does
StepRaises(step, rs) ==
    \/ ~(iter_records_keywords(step) \subseteq iter_records_parameters)
    \/ step = "write_summaries" /\ SummarizeFrom(rs, 1, <<>>, {}).raised

\* ExtendedMatcher.get_matches(text) as one value: the first lookup of the
\* text and of its synonyms that finds something
RECURSIVE FirstMatches(_, _)
FirstMatches(table, plan) ==
    IF Len(plan) = 0 THEN {}
    ELSE IF GildaGetMatches(table, Head(plan)) # {} THEN GildaGetMatches(table, Head(plan))
    ELSE FirstMatches(table, Tail(plan))

InitMain ==
    /\ records \in UNION { RunStreams(n) : n \in 1..MaxRecords }
    /\ terms \in { {}, StaleTerms }
    /\ builds = <<>> /\ gpc = "records" /\ text = <<>>
    /\ lookups = <<>> /\ matches = {} /\ answer = <<>>
    /\ ssslm = <<>> /\ affiliation_no_ror = {} /\ employment = <<>> /\ spos = 0
    /\ steps = <<>>
    /\ mpc \in { "main", "test" }
    /\ NamesIdle /\ IngestIdle /\ ExtractIdle /\ ReconcileIdle

\* lines 23-32: with --test the records are first extracted into output-test
MainIterRecords ==
    /\ mpc = "test"
    /\ steps' = <<"iter_records">>
    /\ mpc' = "main"
    /\ UNCHANGED <<groundVars, ssslm, affiliation_no_ror, employment, spos, notRun>>

\* the next call of main returns
MainStep ==
    /\ mpc = "main"
    /\ Len(Completed) < Len(MainSteps)
    /\ LET step == MainSteps[Len(Completed) + 1]
           summary == SummarizeFrom(records, 1, <<>>, {})
       IN  /\ ~StepRaises(step, records)
           /\ steps' = Append(steps, step)
           /\ mpc' = IF step = "ground_researcher" THEN "done" ELSE "main"
           /\ IF step = "write_summaries"
              THEN /\ affiliation_no_ror' = summary.counter
                   /\ employment' = summary.employment
                   /\ spos' = Len(records)
              ELSE UNCHANGED <<affiliation_no_ror, employment, spos>>
           /\ ssslm' = IF step = "write_lexical"
                       THEN [lq |-> SsslmRows(records, FALSE), hq |-> SsslmRows(records, TRUE)]
                       ELSE ssslm
           /\ terms' = IF step = "write_lexical_sqlite" THEN LexicalRows(records) ELSE terms
           /\ builds' = IF step = "write_lexical_sqlite" THEN Append(builds, terms) ELSE builds
           /\ IF step = "ground_researcher"
              THEN /\ text' = <<"C","T"," ","H","o","y","t">>
                   /\ matches' = FirstMatches(terms, <<text'>> \o name_to_synonyms(text'))
              ELSE UNCHANGED <<text, matches>>
    /\ UNCHANGED <<records, gpc, lookups, answer, notRun>>

\* the next call of main raises, and main with it
MainStepRaises ==
    /\ mpc = "main"
    /\ Len(Completed) < Len(MainSteps)
    /\ StepRaises(MainSteps[Len(Completed) + 1], records)
    /\ mpc' = "raised"
    /\ UNCHANGED <<groundVars, ssslm, affiliation_no_ror, employment, spos, steps, notRun>>

NextMain ==
    \/ MainIterRecords
    \/ MainStep
    \/ MainStepRaises

SpecMain == InitMain /\ [][NextMain]_vars
---------------------------------------------------------------------------
(* The run of the command line: the claims                                  *)

\* the rows write_lexical wrote for record i of the stream, by kind
RowTexts(i, status) ==
    { t.text : t \in { u \in ssslm.lq : u.id = records[i].orcid /\ u.status = status } }

\* the variants of the names of a set
Variants(nms) ==
    UNION { IF name_to_synonyms_raises(a) THEN {} ELSE Range(name_to_synonyms(a)) : a \in nms }

\* C21: for each record the builder emits one name-kind term, whose text is
\* the canonical name, and synonym-kind terms whose texts are exactly the
\* aliases, the variants of the name and the variants of the aliases, minus
\* the name.  Stated as in the claim; an alias whose normalized text is empty
\* is not emitted, and a record whose name has an empty normalized text emits
\* nothing.
C21_TermsOfRecord ==
    ssslm # <<>> =>
      \A i \in 1..Len(records) :
        /\ RowTexts(i, "name") = { records[i].name }
        /\ RowTexts(i, "synonym")
             = (records[i].aliases \cup Variants({records[i].name})
                  \cup Variants(records[i].aliases)) \ { records[i].name }

\* C21, amended: the same for a record whose name has a non-empty normalized
\* text, over the aliases whose normalized text is non-empty; another record
\* emits nothing.
C21_TermsOfRecordNonEmpty ==
    ssslm # <<>> =>
      \A i \in 1..Len(records) :
        LET kept == { a \in records[i].aliases : Len(Strip(normalize(a))) > 0 }
        IN  IF Len(Strip(normalize(records[i].name))) = 0
            THEN RowTexts(i, "name") = {} /\ RowTexts(i, "synonym") = {}
            ELSE /\ RowTexts(i, "name") = { records[i].name }
                 /\ RowTexts(i, "synonym")
                      = (kept \cup Variants({records[i].name}) \cup Variants(kept))
                          \ { records[i].name }

\* the term files are written for a stream with a whitespace alias in one
\* record and a whitespace name in another
C21_Witness ==
    /\ ssslm # <<>>
    /\ \E i \in 1..Len(records) :
         /\ Len(Strip(normalize(records[i].name))) > 0
         /\ \E a \in records[i].aliases : Len(Strip(normalize(a))) = 0
         /\ \E a \in records[i].aliases : a \in RowTexts(i, "synonym")
    /\ \E i \in 1..Len(records) : Len(Strip(normalize(records[i].name))) = 0

OwnNoRor(nm, n) ==
    LET of(i, kind) == IF kind = 1 THEN records[i].employments
                       ELSE IF kind = 2 THEN records[i].educations
                       ELSE records[i].memberships
    IN  UNION { { <<i, kind, j>> :
                    j \in { x \in 1..Len(of(i, kind)) :
                              /\ of(i, kind)[x].name = nm
                              /\ "ror" \notin Keys(of(i, kind)[x].xrefs) } } :
                i \in 1..n, kind \in 1..3 }

\* C29: after each record write_summaries has consumed, the counter holds for
\* each organization name the number of affiliations so far (employments,
\* educations and memberships alike) that have that name and no ROR code of
\* their own, and a record with memberships and no employment raises nothing.
\* Stated as in the claim; the loop over memberships tests employment.ror.
C29_CountsOwnRor ==
    /\ mpc # "raised"
    /\ mpc \in {"summaries", "summarized"} =>
          \A nm \in { <<"A","c","m","e">>, <<"G","u","i","l","d">>, <<"C","l","u","b">>, <<"S","c","h","o","o","l">> } :
              Cardinality(OwnNoRor(nm, spos))
                = (IF nm \in Keys(affiliation_no_ror)
                   THEN DictGet(affiliation_no_ror, nm)[1] ELSE 0)

\* C30: a run of main completes its steps in the order schema, summaries,
\* SQLite database, OWL/RDF, term files, SQLite lexical index, grounding
\* query: no step raises, so that the run goes on to the build of the lexical
\* index, and the query is made only after the index was built in the run.
\* Stated as in the claim; write_owl_rdf hands iter_records a keyword it does
\* not take.
C30_RunCompletes ==
    LET order == << "write_schema", "write_summaries", "write_sqlite", "write_owl_rdf",
                    "write_lexical", "write_lexical_sqlite", "ground_researcher" >>
    IN  /\ mpc # "raised"
        /\ Len(Completed) <= Len(order) /\ Completed = SubSeq(order, 1, Len(Completed))
        /\ mpc = "done" => Len(Completed) = Len(order)
        /\ \A i \in 1..Len(steps) :
              steps[i] = "ground_researcher"
                => \E j \in 1..(i - 1) : steps[j] = "write_lexical_sqlite"
---------------------------------------------------------------------------
(* The organization grounder (ror.py): RORGrounder.ground step by step     *)

\* a mutant of norm_str that keeps the commas
norm_str_keeps_commas(txt) == RemovePrefix(txt, <<"T","h","e"," ">>)

\* line 40: the text of the second lookup
norm_str(txt) == Replace(RemovePrefix(txt, <<"T","h","e"," ">>), <<",">>, <<>>)

\* the organization names handed to ground
RorNames ==
    LET articles == { <<>>, <<"T","h","e"," ">>, <<"T","h","e"," ","T","h","e"," ">>, <<"t","h","e"," ">> }
        cores == { <<"M","I","T">>, <<"U","n","i","v","e","r","s","i","t","y"," ","o","f"," ","B","o","n","n">>, <<"U","n","i","v","e","r","s","i","t","y",","," ","o","f"," ","B","o","n","n">>,
                   <<"M","a","s","s","a","c","h","u","s","e","t","t","s"," ","I","n","s","t","i","t","u","t","e"," ","o","f"," ","T","e","c","h","n","o","l","o","g","y">>, <<"A","c","m","e",","," ","I","n","c",".">>, <<"T","h","e","a","t","r","e">> }
        tails == { <<>>, <<",">> }
    IN  { a \o c \o t : a \in articles, c \in cores, t \in tails }

InitRor ==
    /\ NamesIdle /\ IngestIdle /\ ExtractIdle /\ ReconcileIdle /\ RunIdle
    /\ records = <<>> /\ builds = <<>> /\ answer = <<>>
    /\ terms = ror_grounder
    /\ text \in RorNames
    /\ lookups = <<>>
    /\ matches = {}
    /\ gpc = "ground"

\* lines 32-38: super().ground(text), returned when it is not empty
RORGrounderGround ==
    /\ gpc = "ground"
    /\ lookups' = <<text>>
    /\ matches' = GildaGetMatches(terms, text)
    /\ gpc' = IF matches' # {} THEN "grounded" ELSE "fallback"
    /\ UNCHANGED <<records, terms, builds, text, answer, notGround>>

\* lines 40-46: super().ground(norm_str), returned whatever it is
RORGrounderFallback ==
    /\ gpc = "fallback"
    /\ lookups' = Append(lookups, norm_str(text))
    /\ matches' = GildaGetMatches(terms, norm_str(text))
    /\ gpc' = "grounded"
    /\ UNCHANGED <<records, terms, builds, text, answer, notGround>>

NextRor == RORGrounderGround \/ RORGrounderFallback

SpecRor == InitRor /\ [][NextRor]_vars

\* C26: RORGrounder.ground looks up the raw name first; only when that finds
\* nothing does it look up a second text, the name without one leading "The "
\* and without any comma; there is never a third lookup, and the result is
\* the first non-empty one, or empty when both lookups find nothing.
C26_OneRetry ==
    LET first == GildaGetMatches(terms, text)
        bare == IF StartsWith(text, <<"T","h","e"," ">>) THEN Drop(text, 4) ELSE text
        retry == SelectSeq(bare, LAMBDA c : c # ",")
    IN  /\ Len(lookups) <= 2
        /\ gpc = "fallback" => lookups = <<text>> /\ first = {}
        /\ gpc = "grounded" =>
              IF first # {}
              THEN lookups = <<text>> /\ matches = first
              ELSE lookups = <<text, retry>> /\ matches = GildaGetMatches(terms, retry)

\* the second lookup, of a name with an article and a comma, found the organization
C26_Witness ==
    /\ gpc = "grounded" /\ Len(lookups) = 2 /\ matches # {}
    /\ StartsWith(text, <<"T","h","e"," ">>) /\ Contains(text, ",")
=============================================================================
